---- MODULE Spec2Model ----
(***************************************************************************)
(* The Python binding of libprofit (pyprofit): make_model, make_convolver  *)
(* and the _2ddata container they hand to the library.                     *)
(*                                                                         *)
(* A call is a small state machine: pc is the position in the C function,  *)
(* the other variables are its locals, the Python error indicator, the     *)
(* Model under construction and the value returned.  The dimensions and    *)
(* the 'profiles' mapping are fixed when the call starts; the other items  *)
(* are drawn from bounded sets at the step that reads them.  The library   *)
(* calls whose code is not part of the binding                             *)
(* (Model::add_profile, Profile::parameter, Model::evaluate,               *)
(* create_convolver) are modelled from the specification.                  *)
(***************************************************************************)
EXTENDS Integers, Sequences, FiniteSets, TLC

VARIABLES
    op,          \* the entry point being executed
    focus,       \* which group of inputs ranges over its whole bounded set
    pc,          \* position inside the entry point
    args,        \* what the caller supplied, as far as it has been read
    pyerr,       \* the Python error indicator (NoError or a message)
    ret,         \* what the entry point returned
    loc,         \* C locals: width, height, psf, calcmask and their sizes
    m,           \* the profit::Model built by make_model
    lib,         \* the linked library: the profile kinds add_profile knows
    warnings,    \* lines written to stderr by _read_profiles
    ev,          \* Model::evaluate: times called, image, offset, error
    conv,        \* make_convolver: create_convolver calls and preferences
    obj,         \* the last _2ddata construction attempted
    ser,         \* the Sersic profile code: model, profiles, pixel loop, integrator
    gil          \* the interpreter lock around the library calls of the binding

vars == <<op, focus, pc, args, pyerr, ret, loc, m, lib, warnings, ev, conv, obj, ser, gil>>

-----------------------------------------------------------------------------
(* Bounds of the exploration. *)

\* largest image width/height and largest row count / row length of a matrix
MaxDim == 2
\* largest number of profile records in the 'profiles' mapping
MaxRecords == 2
\* largest data length tried on the _2ddata constructor
MaxData == 2
\* largest 'resolution' and 'max_recursions' of a Sersic profile
MaxResolution == 2
MaxRecursions == 2

-----------------------------------------------------------------------------
(* Python objects, as far as the binding tells them apart. *)

\* PyDict_GetItemString(...) == NULL
PyAbsent == [tag |-> "absent", n |-> 0]
\* an object the numeric conversions (PyInt_AsLong, PyFloat_AsDouble,
\* PyInt_AsUnsignedLongMask) reject: they set a TypeError and return -1
PyNotNum == [tag |-> "notnum", n |-> 0]
\* a number the library refuses with invalid_parameter when it is assigned
PyOutOfDomain == [tag |-> "ood", n |-> 0]
\* Py_None
PyNone == [tag |-> "none", n |-> 0]
\* an object of a type the binding does not expect (not a sequence, not an
\* openclenv)
PyOther == [tag |-> "other", n |-> 0]
\* a pyprofit.openclenv object and a pyprofit.convolver object
PyEnv == [tag |-> "openclenv", n |-> 0]
PyConv == [tag |-> "convolver", n |-> 0]
\* a Python sequence of rows (a matrix) or of profile records
PySeq(items) == [tag |-> "seq", items |-> items]

PyNum(n) == [tag |-> "num", n |-> n]

\* a Python integer beyond the small ones, by the two 32-bit words of the
\* long that PyInt_AsLong returns for it: its value is hi * 2^32 + lo, with
\* lo read as unsigned (-1 is hi = -1 and all bits of lo set)
PyLong(hi, lo) == [tag |-> "long", n |-> lo, hi |-> hi]
\* a Python integer that does not fit a long: PyInt_AsLong sets an
\* OverflowError and returns -1
PyHuge == [tag |-> "huge", n |-> 0]

\* the upper word of the long PyInt_AsLong returns
HighWord(o) == IF o.tag = "long" THEN o.hi ELSE 0

NoError == "no error"
TypeError == "TypeError"
OverflowError == "OverflowError"

\* the error a failed numeric conversion leaves
ConversionError(o) == IF o.tag = "huge" THEN OverflowError ELSE TypeError

\* unsigned int is 32 bits wide.  The checker's integers end at 2^31 - 1, so
\* the arithmetic is done on 16-bit halves, and an unsigned value of 2^31 or
\* more is held as the negative integer with the same 32 bits (4294967295 as
\* -1): equal values have equal bit patterns and conversely
Half == 65536

FromHalves(high, low) ==
    IF high < Half \div 2 THEN high * Half + low ELSE (high - Half) * Half + low

\* static_cast<unsigned int>(n): n modulo 2^32
ToUInt(n) == FromHalves((n \div Half) % Half, n % Half)

\* a * b in unsigned int arithmetic: the product modulo 2^32
MulUInt(a, b) ==
    LET ah == (a \div Half) % Half
        al == a % Half
        bh == (b \div Half) % Half
        bl == b % Half
        low == al * bl
    IN  FromHalves((ah * bl + al * bh + (low \div Half)) % Half, low % Half)

\* PyFloat_AsDouble / PyInt_AsLong / PyInt_AsUnsignedLongMask: value and failure
AsNumber(o) == IF o.tag \in {"num", "ood", "long"} THEN [v |-> o, err |-> FALSE]
               ELSE [v |-> PyNum(-1), err |-> TRUE]

-----------------------------------------------------------------------------
(* profit::_2ddata<T>, the base of Image and Mask. *)

NoData == [present |-> FALSE, data |-> <<>>, width |-> 0, height |-> 0, size |-> 0]

\* a constructor that compares the data length with the product of width
\* and height over the integers
_2ddata_ExactProduct(data, width, height) ==
    IF \/ (width = 0 \/ height = 0) /\ Len(data) # 0
       \/ width # 0 /\ height # 0
          /\ (Len(data) % width # 0 \/ Len(data) \div width # height)
    THEN [threw |-> TRUE, val |-> NoData]
    ELSE [threw |-> FALSE,
          val |-> [present |-> TRUE, data |-> data, width |-> width,
                   height |-> height, size |-> Len(data)]]

\* the constructor: size = width * height in unsigned arithmetic, then
\* throw std::invalid_argument unless size == data.size()
_2ddata(data, width, height) ==
    LET size == MulUInt(width, height)
    IN  IF size # Len(data)
        THEN [threw |-> TRUE, val |-> NoData]
        ELSE [threw |-> FALSE,
              val |-> [present |-> TRUE, data |-> data, width |-> width,
                       height |-> height, size |-> size]]

-----------------------------------------------------------------------------
(* Matrices given as Python sequences of sequences. *)

Rows(cells) == UNION {[1..c -> cells] : c \in 0..MaxDim}

Matrices(cells) == {PySeq(rows) : rows \in UNION {[1..r -> Rows(cells)] : r \in 0..MaxDim}}

PsfCells == {PyNum(1), PyNotNum}

MaskCells == BOOLEAN

\* the index (1-based) of the first row after the first whose length differs
\* from the first row's, or 0
FirstUnequalRow(rows) ==
    LET bad == {j \in 2..Len(rows) : Len(rows[j]) # Len(rows[1])}
    IN  IF bad = {} THEN 0 ELSE CHOOSE j \in bad : \A k \in bad : j <= k

\* row-major copy: cell (row j, column i), 0-based, goes to index i + j*width
Flatten(rows, width) ==
    [k \in 1..(width * Len(rows)) |->
        rows[((k - 1) \div width) + 1][((k - 1) % width) + 1]]

\* whether PyFloat_AsDouble failed on a cell of the rows 1..upto (the rows
\* copied before the function returned)
CellError(rows, upto) ==
    \E j \in 1..upto : \E i \in 1..Len(rows[j]) : rows[j][i] = PyNotNum

\* a NULL result; ub tells that the buffer made with new[] was released
\* with free(), after which the build may go on or the process may abort
NullMatrix(w, h, err) ==
    [ptr |-> FALSE, data |-> <<>>, w |-> w, h |-> h, err |-> err, ub |-> FALSE]

\* _read_psf: NULL for a non-sequence (error set), for a matrix of no rows
\* (sizes untouched, no error) and for rows of unequal length (the sizes of
\* the first row already stored, no error set by the check itself)
_read_psf(matrix, w0, h0) ==
    IF matrix.tag # "seq" THEN NullMatrix(w0, h0, TRUE)
    ELSE IF Len(matrix.items) = 0 THEN NullMatrix(w0, h0, FALSE)
    ELSE LET rows == matrix.items
             width == Len(rows[1])
             height == Len(rows)
             bad == FirstUnequalRow(rows)
         IN  IF bad # 0
             THEN [NullMatrix(width, height, CellError(rows, bad - 1))
                      EXCEPT !.ub = TRUE]
             ELSE [ptr |-> TRUE,
                   data |-> [k \in 1..(width * height) |->
                               AsNumber(Flatten(rows, width)[k]).v.n],
                   w |-> width, h |-> height,
                   err |-> CellError(rows, height), ub |-> FALSE]

\* _read_psf_from_model: sizes zeroed and NULL when the 'psf' item is absent
_read_psf_from_model(item) ==
    IF item.tag = "absent" THEN NullMatrix(0, 0, FALSE) ELSE _read_psf(item, 0, 0)

\* _read_boolean_matrix: as _read_psf, with the absent matrix handled inside
_read_boolean_matrix(matrix) ==
    IF matrix.tag = "absent" THEN NullMatrix(0, 0, FALSE)
    ELSE IF matrix.tag # "seq" THEN NullMatrix(0, 0, TRUE)
    ELSE IF Len(matrix.items) = 0 THEN NullMatrix(0, 0, FALSE)
    ELSE LET rows == matrix.items
             width == Len(rows[1])
             height == Len(rows)
         IN  IF FirstUnequalRow(rows) # 0
             THEN [NullMatrix(width, height, FALSE) EXCEPT !.ub = TRUE]
             ELSE [ptr |-> TRUE, data |-> Flatten(rows, width),
                   w |-> width, h |-> height, err |-> FALSE, ub |-> FALSE]

\* what the caller supplied under a matrix key, kept for the properties:
\* its kind, its number of rows, the length of its first row and whether
\* all rows have one length
Given(item) ==
    IF item.tag # "seq"
    THEN [tag |-> item.tag, h |-> 0, w |-> 0, rect |-> TRUE]
    ELSE [tag |-> "seq", h |-> Len(item.items),
          w |-> IF Len(item.items) = 0 THEN 0 ELSE Len(item.items[1]),
          rect |-> \A i, j \in 1..Len(item.items) :
                      Len(item.items[i]) = Len(item.items[j])]

Unread == [tag |-> "unread", h |-> 0, w |-> 0, rect |-> TRUE]

-----------------------------------------------------------------------------
(* Profile records and the keys read from them. *)

\* the parameters _item_to_radial_profile reads, in the order it reads them
RadialKeys == <<"xcen", "ycen", "mag", "ang", "axrat", "box", "rough", "resolution",
                "max_recursions", "acc", "rscale_switch", "adjust">>

\* the _item_to_<kind>_profile functions: the keys read, in order
SersicKeys == RadialKeys \o <<"re", "nser", "rescale_flux">>
MoffatKeys == RadialKeys \o <<"fwhm", "con">>
FerrerKeys == RadialKeys \o <<"rout", "a", "b">>
KingKeys == RadialKeys \o <<"rc", "rt", "a">>
CoreSersicKeys == RadialKeys \o <<"re", "rb", "nser", "a", "b">>
BrokenExpKeys == RadialKeys \o <<"h1", "h2", "rb", "a">>
SkyKeys == <<"bg">>
NullKeys == << >>
PsfKeys == <<"xcen", "ycen", "mag">>

\* the keys read with read_bool and with read_uint; the others with read_double
BoolKeys == {"convolve", "rough", "adjust", "rescale_flux"}
UIntKeys == {"resolution", "max_recursions"}

\* a key of the 'profiles' mapping under which make_model looks nothing up
OtherKind == "gauss"

\* the _read_profiles calls of make_model, in the order they are made
\* (_read_ferrer_profiles makes two): the name looked up in the 'profiles'
\* mapping and given to add_profile, and the keys read from each record
KindOrder_NoFerrers ==
    << [name |-> "sersic", keys |-> SersicKeys],
       [name |-> "moffat", keys |-> MoffatKeys],
       [name |-> "ferrer", keys |-> FerrerKeys],
       [name |-> "king", keys |-> KingKeys],
       [name |-> "coresersic", keys |-> CoreSersicKeys],
       [name |-> "brokenexp", keys |-> BrokenExpKeys],
       [name |-> "sky", keys |-> SkyKeys],
       [name |-> "null", keys |-> NullKeys],
       [name |-> "psf", keys |-> PsfKeys],
       [name |-> OtherKind, keys |-> PsfKeys] >>

\* the calls with the psf records read first
KindOrder_PsfFirst ==
    << [name |-> "psf", keys |-> PsfKeys],
       [name |-> "sersic", keys |-> SersicKeys],
       [name |-> "moffat", keys |-> MoffatKeys],
       [name |-> "ferrer", keys |-> FerrerKeys],
       [name |-> "ferrers", keys |-> FerrerKeys],
       [name |-> "king", keys |-> KingKeys],
       [name |-> "coresersic", keys |-> CoreSersicKeys],
       [name |-> "brokenexp", keys |-> BrokenExpKeys],
       [name |-> "sky", keys |-> SkyKeys],
       [name |-> "null", keys |-> NullKeys] >>

KindOrder ==
    << [name |-> "sersic", keys |-> SersicKeys],
       [name |-> "moffat", keys |-> MoffatKeys],
       [name |-> "ferrer", keys |-> FerrerKeys],
       [name |-> "ferrers", keys |-> FerrerKeys],
       [name |-> "king", keys |-> KingKeys],
       [name |-> "coresersic", keys |-> CoreSersicKeys],
       [name |-> "brokenexp", keys |-> BrokenExpKeys],
       [name |-> "sky", keys |-> SkyKeys],
       [name |-> "null", keys |-> NullKeys],
       [name |-> "psf", keys |-> PsfKeys] >>

\* every key the 'profiles' mapping of a call may hold
MappingKeys == {"sersic", "moffat", "ferrer", "ferrers", "king", "coresersic",
                "brokenexp", "sky", "null", "psf", OtherKind}

\* the records tried: plain, with a key nothing reads ("zz"), refused by the
\* library at the first assignment, refused at a later one, not a number
Records ==
    { [mag |-> PyNum(1)],
      [convolve |-> PyNum(1), mag |-> PyNum(2), rout |-> PyNum(1), nser |-> PyNum(1),
       bg |-> PyNum(1), zz |-> PyNum(1)],
      [convolve |-> PyOutOfDomain, mag |-> PyNum(1)],
      [mag |-> PyNum(1), axrat |-> PyOutOfDomain, bg |-> PyOutOfDomain],
      [mag |-> PyNotNum, bg |-> PyNotNum] }

\* read_bool / read_uint / read_double: the value handed to parameter()
Converted(key, o) ==
    IF key \in BoolKeys THEN (IF o.tag = "num" /\ o.n = 0 THEN 0 ELSE 1)
    ELSE IF key \in UIntKeys THEN ToUInt(AsNumber(o).v.n)
    ELSE AsNumber(o).v.n

\* whether the conversion made for the key sets the Python error indicator
ConversionFails(key, o) == key \notin BoolKeys /\ AsNumber(o).err

\* Model::add_profile(name): invalid_parameter unless the library knows the
\* kind; otherwise a profile of that kind is appended to the model
add_profile_throws(name, libkinds) == name \notin libkinds

\* Profile::parameter(key, value): invalid_parameter for a value the
\* library refuses; otherwise the value is stored under the key
parameter_throws(o) == o.tag = "ood"

\* the try block of _read_profiles for one record: add_profile, then
\* "convolve", then the kind's keys, each assigned only when the record has
\* it; the first invalid_parameter ends the block, and what was added and
\* assigned before it stays in the model
PopulateOne(kind, rec, idx, libkinds) ==
    IF add_profile_throws(kind.name, libkinds)
    THEN [added |-> FALSE, raised |-> TRUE, pyerr |-> FALSE,
          profile |-> [kind |-> kind.name, params |-> << >>, src |-> <<kind.name, idx>>]]
    ELSE LET order == <<"convolve">> \o kind.keys
             present == SelectSeq(order, LAMBDA k : k \in DOMAIN rec)
             refused == {i \in 1..Len(present) : parameter_throws(rec[present[i]])}
             stop == IF refused = {} THEN Len(present) + 1
                     ELSE CHOOSE i \in refused : \A j \in refused : i <= j
             assigned == {present[i] : i \in 1..(stop - 1)}
         IN  [added |-> TRUE,
              raised |-> refused # {},
              pyerr |-> \E i \in 1..(IF stop > Len(present) THEN Len(present) ELSE stop) :
                           ConversionFails(present[i], rec[present[i]]),
              profile |-> [kind |-> kind.name,
                           params |-> [k \in assigned |-> Converted(k, rec[k])],
                           src |-> <<kind.name, idx>>]]

RECURSIVE ReadRecords(_, _, _, _, _)
\* the loop of _read_profiles over the records i..Len(recs) of one kind;
\* st holds the model's profiles, the warnings and whether an error was set
ReadRecords(st, kind, recs, i, libkinds) ==
    IF i > Len(recs) THEN st
    ELSE LET r == PopulateOne(kind, recs[i], i, libkinds)
         IN  ReadRecords(
                 [profiles |-> IF r.added THEN Append(st.profiles, r.profile)
                               ELSE st.profiles,
                  warnings |-> IF r.raised THEN Append(st.warnings, <<kind.name, i>>)
                               ELSE st.warnings,
                  pyerr |-> st.pyerr \/ r.pyerr],
                 kind, recs, i + 1, libkinds)

RECURSIVE ReadRecords_StopAtRaise(_, _, _, _, _)
ReadRecords_StopAtRaise(st, kind, recs, i, libkinds) ==
    IF i > Len(recs) THEN st
    ELSE LET r == PopulateOne(kind, recs[i], i, libkinds)
             next == [profiles |-> IF r.added THEN Append(st.profiles, r.profile)
                                   ELSE st.profiles,
                      warnings |-> IF r.raised THEN Append(st.warnings, <<kind.name, i>>)
                                   ELSE st.warnings,
                      pyerr |-> st.pyerr \/ r.pyerr]
         IN  IF r.raised THEN next
             ELSE ReadRecords_StopAtRaise(next, kind, recs, i + 1, libkinds)

_read_profiles_StopAtRaise(st, kind, item, libkinds) ==
    IF item.tag = "absent" THEN st
    ELSE ReadRecords_StopAtRaise(st, kind, item.items, 1, libkinds)

\* _read_profiles: nothing when the mapping has no item of that name
_read_profiles(st, kind, item, libkinds) ==
    IF item.tag = "absent" THEN st
    ELSE ReadRecords(st, kind, item.items, 1, libkinds)

-----------------------------------------------------------------------------
(* The library behind the binding: Model and its evaluation. *)

NoModel ==
    [created |-> FALSE, dims |-> <<0, 0>>, scale |-> <<1, 1>>,
     psf |-> NoData, psf_scale |-> <<1, 1>>, mask |-> NoData, magzero |-> 0,
     opencl_env |-> FALSE, omp_threads |-> 1, convolver |-> FALSE,
     profiles |-> << >>]

AllKinds == {"sersic", "moffat", "ferrer", "ferrers", "king", "coresersic",
             "brokenexp", "sky", "null", "psf"}

\* the flux one profile adds to every evaluated pixel: nothing for "null",
\* otherwise a default flux plus what its assigned parameters add
Flux(p) ==
    IF p.kind = "null" THEN 0
    ELSE 1 + (IF "mag" \in DOMAIN p.params THEN p.params["mag"] ELSE 0)
           + (IF "bg" \in DOMAIN p.params THEN 2 * p.params["bg"] ELSE 0)
           + (IF "rout" \in DOMAIN p.params THEN 4 * p.params["rout"] ELSE 0)

RECURSIVE TotalFlux(_)
TotalFlux(profiles) ==
    IF profiles = << >> THEN 0
    ELSE Flux(Head(profiles)) + TotalFlux(Tail(profiles))

\* the row-major pixel array of a width x height render: element k (from 0)
\* is the pixel of row k \div width, column k % width; a pixel the mask
\* switches off is left at zero
Pixels(width, height, mask, profiles) ==
    [k \in 1..(width * height) |->
        IF mask.present /\ ~mask.data[k] THEN 0
        ELSE (k - 1) + TotalFlux(profiles)]

NoEvaluation ==
    [calls |-> 0, threw |-> FALSE, error |-> "", image |-> NoData, offset |-> <<0, 0>>,
     nprofiles |-> 0]

\* Model::evaluate(offset): a model of zero width or height is refused
\* before anything is rendered, a failure at run time aborts the render,
\* otherwise the image has the model's dimensions
Model_evaluate(model, runtime_failure, calls) ==
    IF model.dims[1] = 0 \/ model.dims[2] = 0
    THEN [calls |-> calls + 1, threw |-> TRUE, error |-> "invalid_parameter",
          image |-> NoData, offset |-> <<0, 0>>, nprofiles |-> Len(model.profiles)]
    ELSE IF runtime_failure
    THEN [calls |-> calls + 1, threw |-> TRUE, error |-> "runtime failure",
          image |-> NoData, offset |-> <<0, 0>>, nprofiles |-> Len(model.profiles)]
    ELSE [calls |-> calls + 1, threw |-> FALSE, error |-> "",
          image |-> _2ddata(Pixels(model.dims[1], model.dims[2], model.mask,
                                   model.profiles),
                            model.dims[1], model.dims[2]).val,
          offset |-> <<0, 0>>, nprofiles |-> Len(model.profiles)]

-----------------------------------------------------------------------------
(* The inputs of a call.  One group of inputs at a time ranges over its    *)
(* whole bounded set (the focus); the other groups take their plain values. *)

Focuses == {"matrix", "config", "profiles"}

PyUnread == [tag |-> "unread", n |-> 0]

\* with the focus on the dimensions: the small ones, 2^32 - 1, 2^31, -1,
\* 2^32 + 1, 1 - 2^32 and an integer beyond the range of long
DimItems(f) ==
    IF f = "matrix" THEN {PyAbsent, PyNotNum} \cup {PyNum(n) : n \in 0..MaxDim}
    ELSE IF f = "dims"
    THEN {PyNum(n) : n \in 0..MaxDim}
         \cup {PyLong(0, -1), PyLong(0, (0 - Half) * (Half \div 2)), PyLong(-1, -1),
               PyLong(1, 1), PyLong(-1, 1), PyHuge}
    ELSE {PyNum(1)}

PsfItems(f) ==
    IF f = "matrix" THEN {PyAbsent, PyOther} \cup Matrices(PsfCells)
    ELSE IF f = "config" THEN {PyAbsent, PySeq(<< <<PyNum(1)>> >>)}
    ELSE {PyAbsent}

MaskItems(f) ==
    IF f = "matrix" THEN {PyAbsent, PyOther} \cup Matrices(MaskCells)
    ELSE IF f = "dims"
    THEN {PyAbsent} \cup {PySeq([i \in 1..d |-> [j \in 1..d |-> TRUE]]) : d \in 1..MaxDim}
    ELSE {PyAbsent}

ScalarItems(f) == IF f = "config" THEN {PyAbsent, PyNum(2), PyNotNum} ELSE {PyAbsent}

EnvItems(f) == IF f = "config" THEN {PyAbsent, PyNone, PyOther, PyEnv} ELSE {PyAbsent}

ConvolverItems(f) == IF f = "config" THEN {PyAbsent, PyConv} ELSE {PyAbsent}

\* the 'profiles' mappings tried: up to MaxRecords records, each under one
\* of the keys; the records of one key keep their order
Slots(f) ==
    IF f = "profiles"
    THEN UNION {[1..n -> MappingKeys \X Records] : n \in 0..MaxRecords}
    ELSE {<< >>}

MappingOf(slots) ==
    [k \in MappingKeys |->
        LET mine == SelectSeq(slots, LAMBDA s : s[1] = k)
        IN  [i \in 1..Len(mine) |-> mine[i][2]]]

\* PyDict_GetItemString(profiles_dict, name)
ProfilesItem(recs, name) ==
    IF name \notin DOMAIN recs \/ recs[name] = << >> THEN PyAbsent ELSE PySeq(recs[name])

NoArgs ==
    [width |-> PyAbsent, height |-> PyAbsent, has_profiles |-> FALSE,
     psf |-> Unread, calcmask |-> Unread,
     scale_x |-> PyUnread, scale_y |-> PyUnread, psf_scale_x |-> PyUnread,
     psf_scale_y |-> PyUnread, magzero |-> PyUnread, openclenv |-> PyUnread,
     omp_threads |-> PyUnread, convolver |-> PyUnread,
     recs |-> [k \in MappingKeys |-> << >>]]

NoLocals ==
    [width |-> 0, height |-> 0, width_hi |-> 0, height_hi |-> 0, psf |-> NullMatrix(0, 0, FALSE),
     calcmask |-> NullMatrix(0, 0, FALSE), k |-> 1]

NotReturned == [what |-> "nothing", image |-> << >>, offset |-> << >>]
ReturnedNull == [what |-> "NULL", image |-> << >>, offset |-> << >>]

NoConvolver == [calls |-> 0, krn_dims |-> <<0, 0>>, src_dims |-> <<0, 0>>]

NoObject == [attempted |-> FALSE, data |-> << >>, width |-> 0, height |-> 0,
             result |-> [threw |-> FALSE, val |-> NoData]]

\* the Sersic profile code takes no part in a call of the binding
NoSersic == [stage |-> "none"]

\* the interpreter lock is not followed
NoLock == [holder |-> "caller"]

Init ==
    /\ op \in {"make_model", "make_convolver", "_2ddata"}
    /\ focus \in (IF op = "make_model" THEN Focuses ELSE {"none"})
    /\ pc = "start"
    /\ \E w \in DimItems(focus), h \in DimItems(focus), hasp \in BOOLEAN,
          slots \in Slots(focus) :
          /\ op = "make_model" \/ (hasp /\ w.tag = "num" /\ h.tag = "num")
          /\ args = [NoArgs EXCEPT !.width = w, !.height = h, !.has_profiles = hasp,
                                   !.recs = MappingOf(slots)]
    /\ lib \in (IF focus = "profiles" THEN {AllKinds, AllKinds \ {"null"}}
                ELSE {AllKinds})
    /\ pyerr = NoError
    /\ ret = NotReturned
    /\ loc = NoLocals
    /\ m = NoModel
    /\ warnings = << >>
    /\ ev = NoEvaluation
    /\ conv = NoConvolver
    /\ obj = NoObject
    /\ ser = NoSersic
    /\ gil = NoLock

\* PYPROFIT_RAISE(str), and a return NULL after a failed Python call
Raise(msg) ==
    /\ pyerr' = msg
    /\ ret' = ReturnedNull
    /\ pc' = "done"

-----------------------------------------------------------------------------
(* make_model *)

\* the mandatory items: 'width', 'height', 'profiles', checked in that order
CheckMandatory_HeightFirst ==
    /\ op = "make_model" /\ pc = "start"
    /\ UNCHANGED <<ser, gil>>
    /\ UNCHANGED <<op, focus, args, m, lib, warnings, ev, conv, obj>>
    /\ IF args.height.tag = "absent"
       THEN Raise("Missing mandatory 'height' item") /\ UNCHANGED loc
       ELSE IF args.width.tag = "absent"
       THEN Raise("Missing mandatory 'width' item") /\ UNCHANGED loc
       ELSE IF AsNumber(args.width).err
       THEN Raise(ConversionError(args.width)) /\ UNCHANGED loc
       ELSE IF AsNumber(args.height).err
       THEN Raise(ConversionError(args.height)) /\ UNCHANGED loc
       ELSE IF ~args.has_profiles
       THEN Raise("Missing mandatory 'profiles' item") /\ UNCHANGED loc
       ELSE /\ loc' = [loc EXCEPT !.width = AsNumber(args.width).v.n,
                                  !.height = AsNumber(args.height).v.n,
                                  !.width_hi = HighWord(AsNumber(args.width).v),
                                  !.height_hi = HighWord(AsNumber(args.height).v)]
            /\ pc' = "read_psf"
            /\ UNCHANGED <<pyerr, ret>>

CheckMandatory ==
    /\ op = "make_model" /\ pc = "start"
    /\ UNCHANGED <<ser, gil>>
    /\ UNCHANGED <<op, focus, args, m, lib, warnings, ev, conv, obj>>
    /\ IF args.width.tag = "absent"
       THEN Raise("Missing mandatory 'width' item") /\ UNCHANGED loc
       ELSE IF AsNumber(args.width).err
       THEN Raise(ConversionError(args.width)) /\ UNCHANGED loc
       ELSE IF args.height.tag = "absent"
       THEN Raise("Missing mandatory 'height' item") /\ UNCHANGED loc
       ELSE IF AsNumber(args.height).err
       THEN Raise(ConversionError(args.height)) /\ UNCHANGED loc
       ELSE IF ~args.has_profiles
       THEN Raise("Missing mandatory 'profiles' item") /\ UNCHANGED loc
       ELSE /\ loc' = [loc EXCEPT !.width = AsNumber(args.width).v.n,
                                  !.height = AsNumber(args.height).v.n,
                                  !.width_hi = HighWord(AsNumber(args.width).v),
                                  !.height_hi = HighWord(AsNumber(args.height).v)]
            /\ pc' = "read_psf"
            /\ UNCHANGED <<pyerr, ret>>

\* psf = _read_psf_from_model(...); if( PyErr_Occurred() ) return NULL;
ReadPsf ==
    /\ op = "make_model" /\ pc = "read_psf"
    /\ UNCHANGED <<ser, gil>>
    /\ UNCHANGED <<op, focus, m, lib, warnings, ev, conv, obj>>
    /\ \E item \in PsfItems(focus) :
          LET r == _read_psf_from_model(item)
          IN  /\ args' = [args EXCEPT !.psf = Given(item)]
              /\ loc' = [loc EXCEPT !.psf = r]
              /\ \/ IF r.err THEN Raise(TypeError)
                    ELSE pc' = "read_mask" /\ UNCHANGED <<pyerr, ret>>
                 \/ r.ub /\ pc' = "terminated" /\ UNCHANGED <<pyerr, ret>>

\* a comparison with the low word of the long only
DiffersFromLong_Reduced(u, hi, lo) == u # lo

\* mask_w != width: the unsigned int is converted to long and the two
\* longs are compared, so it differs from every long whose upper word is
\* not zero
DiffersFromLong(u, hi, lo) == hi # 0 \/ u # lo

\* calcmask = _read_boolean_matrix(...); the error check; the size check
ReadMask ==
    /\ op = "make_model" /\ pc = "read_mask"
    /\ UNCHANGED <<ser, gil>>
    /\ UNCHANGED <<op, focus, m, lib, warnings, ev, conv, obj>>
    /\ \E item \in MaskItems(focus) :
          LET r == _read_boolean_matrix(item)
          IN  /\ args' = [args EXCEPT !.calcmask = Given(item)]
              /\ loc' = [loc EXCEPT !.calcmask = r]
              /\ \/ IF r.err THEN Raise(TypeError)
                    ELSE IF r.ptr /\ (DiffersFromLong(r.w, loc.width_hi, loc.width)
                                       \/ DiffersFromLong(r.h, loc.height_hi, loc.height))
                    THEN Raise("calcmask must have same dimensions of image")
                    ELSE pc' = "configure" /\ UNCHANGED <<pyerr, ret>>
                 \/ r.ub /\ pc' = "terminated" /\ UNCHANGED <<pyerr, ret>>

\* a READ_DOUBLE that assigns 0.0 when the item is absent
ReadDouble_ZeroWhenAbsent(item, default) ==
    IF item.tag = "absent" THEN [v |-> 0, err |-> FALSE]
    ELSE [v |-> AsNumber(item).v.n, err |-> AsNumber(item).err]

\* READ_DOUBLE(from, name, to): the default stays when the item is absent
ReadDouble(item, default) ==
    IF item.tag = "absent" THEN [v |-> default, err |-> FALSE]
    ELSE [v |-> AsNumber(item).v.n, err |-> AsNumber(item).err]

\* "Create and initialize the model": what the block from 'Model m' to the
\* convolver does with the items it reads, in the order of the code.  kind
\* is "raise" (PYPROFIT_RAISE, with msg), "terminate" (an exception leaves
\* the function through the interpreter) or "ok" (with the model, and with
\* pyerr telling whether an unchecked conversion left an error set)
ConfigureModel(l, sx, sy, psx, psy, mz, env, omp, cv) ==
    LET scale_x == ReadDouble(sx, 1)
        scale_y == ReadDouble(sy, 1)
        psf_im == _2ddata(l.psf.data, l.psf.w, l.psf.h)
        psf_scale_x == ReadDouble(psx, 1)
        psf_scale_y == ReadDouble(psy, 1)
        mask == _2ddata(l.calcmask.data, ToUInt(l.width), ToUInt(l.height))
        magzero == ReadDouble(mz, 0)
        threads == AsNumber(omp)
        out(kind, msg, model, err) ==
            [kind |-> kind, msg |-> msg, model |-> model, pyerr |-> err]
    IN  IF scale_x.err THEN out("raise", "Error reading '\"scale_x\"' argument, not a floating point number", NoModel, TRUE)
        ELSE IF scale_y.err THEN out("raise", "Error reading '\"scale_y\"' argument, not a floating point number", NoModel, TRUE)
        ELSE IF l.psf.ptr /\ psf_im.threw THEN out("terminate", "", NoModel, FALSE)
        ELSE IF l.psf.ptr /\ psf_scale_x.err
        THEN out("raise", "Error reading '\"psf_scale_x\"' argument, not a floating point number", NoModel, TRUE)
        ELSE IF l.psf.ptr /\ psf_scale_y.err
        THEN out("raise", "Error reading '\"psf_scale_y\"' argument, not a floating point number", NoModel, TRUE)
        ELSE IF l.calcmask.ptr /\ mask.threw THEN out("terminate", "", NoModel, FALSE)
        ELSE IF magzero.err THEN out("raise", "Error reading '\"magzero\"' argument, not a floating point number", NoModel, TRUE)
        ELSE IF env.tag \notin {"absent", "none", "openclenv"}
        THEN out("raise", "Given openclenv is not of type pyprofit.openclenv",
                 NoModel, TRUE)
        ELSE out("ok", "",
                 [created |-> TRUE,
                  dims |-> <<ToUInt(l.width), ToUInt(l.height)>>,
                  scale |-> <<scale_x.v, scale_y.v>>,
                  psf |-> IF l.psf.ptr THEN psf_im.val ELSE NoData,
                  psf_scale |-> IF l.psf.ptr THEN <<psf_scale_x.v, psf_scale_y.v>>
                                ELSE <<1, 1>>,
                  mask |-> IF l.calcmask.ptr THEN mask.val ELSE NoData,
                  magzero |-> magzero.v,
                  opencl_env |-> env.tag = "openclenv",
                  omp_threads |-> IF omp.tag = "absent" THEN 1 ELSE ToUInt(threads.v.n),
                  convolver |-> cv.tag # "absent",
                  profiles |-> << >>],
                 omp.tag # "absent" /\ threads.err)

Configure ==
    /\ op = "make_model" /\ pc = "configure"
    /\ UNCHANGED <<ser, gil>>
    /\ UNCHANGED <<op, focus, lib, warnings, ev, conv, obj>>
    /\ \E sx, sy, psx, psy, mz, omp \in ScalarItems(focus),
          env \in EnvItems(focus), cv \in ConvolverItems(focus) :
          LET r == ConfigureModel(loc, sx, sy, psx, psy, mz, env, omp, cv)
          IN  /\ (~loc.psf.ptr) => (psx = PyAbsent /\ psy = PyAbsent)
              /\ args' = [args EXCEPT !.scale_x = sx, !.scale_y = sy,
                                      !.psf_scale_x = IF loc.psf.ptr THEN psx ELSE PyUnread,
                                      !.psf_scale_y = IF loc.psf.ptr THEN psy ELSE PyUnread,
                                      !.magzero = mz, !.openclenv = env,
                                      !.omp_threads = omp, !.convolver = cv]
              /\ \* the buffers are copied into the model and deleted
                 loc' = [loc EXCEPT !.psf.data = << >>, !.calcmask.data = << >>]
              /\ IF r.kind = "raise" THEN Raise(r.msg) /\ UNCHANGED m
                 ELSE IF r.kind = "terminate"
                 THEN pc' = "terminated" /\ UNCHANGED <<m, pyerr, ret>>
                 ELSE /\ m' = r.model
                      /\ pyerr' = IF r.pyerr THEN TypeError ELSE pyerr
                      /\ pc' = "profiles"
                      /\ UNCHANGED ret

\* "Read the profiles": the next _read_profiles call of the list
ReadProfiles ==
    /\ op = "make_model" /\ pc = "profiles"
    /\ UNCHANGED <<ser, gil>>
    /\ UNCHANGED <<op, focus, args, lib, ev, conv, obj, ret>>
    /\ LET kind == KindOrder[loc.k]
           st == _read_profiles(
                     [profiles |-> m.profiles, warnings |-> warnings,
                      pyerr |-> pyerr # NoError],
                     kind, ProfilesItem(args.recs, kind.name), lib)
       IN  /\ m' = [m EXCEPT !.profiles = st.profiles]
           /\ warnings' = st.warnings
           /\ pyerr' = IF st.pyerr /\ pyerr = NoError THEN TypeError ELSE pyerr
           /\ loc' = [loc EXCEPT !.k = loc.k + 1]
           /\ pc' = IF loc.k = Len(KindOrder) THEN "evaluate" ELSE "profiles"

Evaluate_Early ==
    /\ op = "make_model" /\ pc \in {"profiles", "evaluate"}
    /\ UNCHANGED <<op, focus, args, pyerr, ret, loc, m, lib, warnings, conv, obj, ser, gil>>
    /\ \E runtime_failure \in BOOLEAN :
          ev' = Model_evaluate(m, runtime_failure, ev.calls)
    /\ pc' = "return"

\* image = m.evaluate(offset), with the interpreter lock released; an
\* exception leaves its message in 'error'
Evaluate ==
    /\ op = "make_model" /\ pc = "evaluate"
    /\ UNCHANGED <<ser, gil>>
    /\ UNCHANGED <<op, focus, args, pyerr, ret, loc, m, lib, warnings, conv, obj>>
    /\ \E runtime_failure \in BOOLEAN :
          ev' = Model_evaluate(m, runtime_failure, ev.calls)
    /\ pc' = "return"

BuildResult_ColumnMajor(image, offset) ==
    [what |-> "tuple",
     image |-> [i \in 1..image.height |->
                  [j \in 1..image.width |-> image.data[(j - 1) * image.height + i]]],
     offset |-> offset]

\* the 2-element tuple returned: one tuple per row i of the image, its
\* element j being image[i*im_dims.x + j], and the 2-element offset
BuildResult(image, offset) ==
    [what |-> "tuple",
     image |-> [i \in 1..image.height |->
                  [j \in 1..image.width |-> image.data[(i - 1) * image.width + (j - 1) + 1]]],
     offset |-> <<offset[1], offset[2]>>]

\* if( !error.empty() ) { PyErr_SetString(...); return NULL; } and then the
\* construction of the returned tuple
ReturnResult ==
    /\ op = "make_model" /\ pc = "return"
    /\ UNCHANGED <<ser, gil>>
    /\ UNCHANGED <<op, focus, args, loc, m, lib, warnings, ev, conv, obj>>
    /\ IF ev.error # ""
       THEN Raise(ev.error)
       ELSE /\ ret' = BuildResult(ev.image, ev.offset)
            /\ pc' = "done"
            /\ UNCHANGED pyerr

-----------------------------------------------------------------------------
(* make_convolver *)

\* _read_psf(psf_p, ...); if( PyErr_Occurred() ) return NULL;
ConvolverReadPsf ==
    /\ op = "make_convolver" /\ pc = "start"
    /\ UNCHANGED <<ser, gil>>
    /\ UNCHANGED <<op, focus, m, lib, warnings, ev, conv, obj>>
    /\ \E matrix \in {PyOther} \cup Matrices(PsfCells) :
          LET r == _read_psf(matrix, 0, 0)
          IN  /\ args' = [args EXCEPT !.psf = Given(matrix)]
              /\ loc' = [loc EXCEPT !.psf = [r EXCEPT !.data = << >>],
                                    !.width = AsNumber(args.width).v.n,
                                    !.height = AsNumber(args.height).v.n]
              /\ \/ IF r.err THEN Raise(TypeError)
                    ELSE pc' = "create" /\ UNCHANGED <<pyerr, ret>>
                 \/ r.ub /\ pc' = "terminated" /\ UNCHANGED <<pyerr, ret>>

\* the preferences, the openclenv check and create_convolver, which either
\* returns a convolver or throws
ConvolverCreate ==
    /\ op = "make_convolver" /\ pc = "create"
    /\ UNCHANGED <<ser, gil>>
    /\ UNCHANGED <<op, focus, loc, m, lib, warnings, ev, obj>>
    /\ \E env \in {PyAbsent, PyOther, PyEnv}, throws \in BOOLEAN :
          /\ args' = [args EXCEPT !.openclenv = env]
          /\ IF env.tag \notin {"absent", "openclenv"}
             THEN /\ Raise("Given openclenv is not of type pyprofit.openclenv")
                  /\ UNCHANGED conv
             ELSE /\ conv' = [calls |-> conv.calls + 1,
                              krn_dims |-> <<loc.psf.w, loc.psf.h>>,
                              src_dims |-> <<loc.width, loc.height>>]
                  /\ IF throws THEN Raise("create_convolver failed")
                     ELSE /\ ret' = [what |-> "convolver", image |-> << >>,
                                     offset |-> << >>]
                          /\ pc' = "done"
                          /\ UNCHANGED pyerr

-----------------------------------------------------------------------------
(* A direct construction of an Image or a Mask. *)

\* the small dimensions and one whose square is 2^32
CtorDims == (0..MaxDim) \cup {Half}

Construct ==
    /\ op = "_2ddata" /\ pc = "start"
    /\ UNCHANGED <<ser, gil>>
    /\ UNCHANGED <<op, focus, args, pyerr, ret, loc, m, lib, warnings, ev, conv>>
    /\ \E n \in 0..MaxData, w \in CtorDims, h \in CtorDims :
          LET data == [i \in 1..n |-> 1]
          IN  obj' = [attempted |-> TRUE, data |-> data, width |-> w, height |-> h,
                      result |-> _2ddata(data, w, h)]
    /\ pc' = "done"

-----------------------------------------------------------------------------

Next ==
    \/ CheckMandatory
    \/ ReadPsf
    \/ ReadMask
    \/ Configure
    \/ ReadProfiles
    \/ Evaluate
    \/ ReturnResult
    \/ ConvolverReadPsf
    \/ ConvolverCreate
    \/ Construct

Spec == Init /\ [][Next]_vars

\* make_model on the 'profiles' mappings alone
ProfilesInit == Init /\ op = "make_model" /\ focus = "profiles"

ProfilesNext ==
    \/ CheckMandatory
    \/ ReadPsf
    \/ ReadMask
    \/ Configure
    \/ ReadProfiles
    \/ Evaluate
    \/ ReturnResult

ProfilesSpec == ProfilesInit /\ [][ProfilesNext]_vars

\* make_model up to the configured model, for dimensions of every size;
\* what the library renders for them is not followed
DimInit ==
    /\ op = "make_model"
    /\ focus = "dims"
    /\ pc = "start"
    /\ \E w \in DimItems(focus), h \in DimItems(focus), hasp \in BOOLEAN :
          args = [NoArgs EXCEPT !.width = w, !.height = h, !.has_profiles = hasp]
    /\ lib = AllKinds
    /\ pyerr = NoError
    /\ ret = NotReturned
    /\ loc = NoLocals
    /\ m = NoModel
    /\ warnings = << >>
    /\ ev = NoEvaluation
    /\ conv = NoConvolver
    /\ obj = NoObject
    /\ ser = NoSersic
    /\ gil = NoLock

DimNext ==
    \/ CheckMandatory
    \/ ReadPsf
    \/ ReadMask
    \/ Configure

DimSpec == DimInit /\ [][DimNext]_vars

-----------------------------------------------------------------------------
(* Properties of make_model: vocabulary. *)

Returned == op = "make_model" /\ pc = "done"

Succeeded == Returned /\ ret.what = "tuple"

Failed == Returned /\ ret.what = "NULL"

MissingMandatory ==
    args.width.tag = "absent" \/ args.height.tag = "absent" \/ ~args.has_profiles

\* a supplied matrix of equal-length rows whose dimensions differ from the
\* image's; a matrix of no rows differs from every image that has rows
DiffersFromImage(given) ==
    /\ given.tag = "seq" /\ given.rect
    /\ given.h # loc.height \/ (given.h > 0 /\ given.w # loc.width)

Jagged(given) == given.tag = "seq" /\ ~given.rect

-----------------------------------------------------------------------------
\* C1: every make_model call ends in exactly one of two ways: the
\* (image, offset) result with no error pending, or a Python error with no
\* result; when evaluate throws no image is returned.
C1_ResultOrError ==
    Returned =>
        /\ \/ ret.what = "tuple" /\ pyerr = NoError
           \/ ret.what = "NULL" /\ pyerr # NoError
        /\ ev.threw => ret.what = "NULL"

-----------------------------------------------------------------------------
-----------------------------------------------------------------------------
\* C3: make_model fails with "calcmask must have same dimensions of image",
\* without evaluating, for every supplied mask whose dimensions are not
\* (width, height), a mask of zero rows included; a mask reaches the model
\* only when its dimensions equal the image's.
C3_MaskMismatchRejected ==
    (op = "make_model" /\ DiffersFromImage(args.calcmask)) =>
        /\ ev.calls = 0
        /\ ~m.mask.present
        /\ pc \in {"read_mask", "done"}
        /\ Returned =>
              (ret.what = "NULL" /\ pyerr = "calcmask must have same dimensions of image")

-----------------------------------------------------------------------------
\* C4: a PSF or mask whose rows have unequal lengths makes make_model and
\* make_convolver fail with an error: the matrix is never taken as absent,
\* and neither evaluate nor create_convolver is called.
C4_JaggedRejected ==
    (Jagged(args.psf) \/ Jagged(args.calcmask)) =>
        /\ ev.calls = 0
        /\ conv.calls = 0
        /\ ~m.created
        /\ pc = "done" => (ret.what = "NULL" /\ pyerr # NoError)

-----------------------------------------------------------------------------
-----------------------------------------------------------------------------
(* Properties of the profile records: vocabulary. *)

Range(seq) == {seq[i] : i \in 1..Len(seq)}

\* the keys make_model reads from a record found under the name
KeysRead(name) ==
    LET calls == {i \in 1..Len(KindOrder) : KindOrder[i].name = name}
    IN  IF calls = {} THEN {}
        ELSE {"convolve"} \cup Range(KindOrder[CHOOSE i \in calls : TRUE].keys)

\* the record raises invalid_parameter: the library does not know the kind,
\* or refuses one of the values assigned from the record
Raises(name, rec) ==
    \/ add_profile_throws(name, lib)
    \/ \E key \in KeysRead(name) \cap DOMAIN rec : parameter_throws(rec[key])

\* the parameters a record of the kind assigns when nothing is refused
Expected(name, rec) ==
    [key \in KeysRead(name) \cap DOMAIN rec |-> Converted(key, rec[key])]

FromRecord(p) == args.recs[p.src[1]][p.src[2]]

ProfilesRead ==
    op = "make_model" /\ m.created /\ pc \in {"evaluate", "return", "done"}

-----------------------------------------------------------------------------
\* C6: a record that raises invalid_parameter while it is added or while
\* its parameters are set contributes no profile to the model: one warning
\* is written for it, and the image is the one rendered from the records
\* that did not raise.
C6_InvalidRecordDropped ==
    ProfilesRead =>
        /\ \A n \in 1..Len(m.profiles) :
              ~Raises(m.profiles[n].src[1], FromRecord(m.profiles[n]))
        /\ \A k \in AllKinds : \A i \in 1..Len(args.recs[k]) :
              Cardinality({w \in 1..Len(warnings) : warnings[w] = <<k, i>>})
                  = IF Raises(k, args.recs[k][i]) THEN 1 ELSE 0
        /\ Succeeded =>
              ev.image.data =
                  Pixels(loc.width, loc.height, m.mask,
                         SelectSeq(m.profiles,
                                   LAMBDA p : ~Raises(p.src[1], FromRecord(p))))

-----------------------------------------------------------------------------
\* C7: after a record has raised invalid_parameter, the later records of
\* its kind and the records of the other kinds are still read, each into a
\* profile of its own holding the parameters of its own record, and the
\* call goes on to evaluate.
C7_ValidRecordsUnaffected ==
    ProfilesRead =>
        /\ \A k \in AllKinds : \A i \in 1..Len(args.recs[k]) :
              ~Raises(k, args.recs[k][i]) =>
                  LET mine == {n \in 1..Len(m.profiles) : m.profiles[n].src = <<k, i>>}
                  IN  /\ Cardinality(mine) = 1
                      /\ \A n \in mine :
                            /\ m.profiles[n].kind = k
                            /\ m.profiles[n].params = Expected(k, args.recs[k][i])
        /\ pc = "done" => ev.calls = 1

\* a raising record followed by a valid one of the same kind and by a valid
\* one of a later kind, in a call that returned its image
C7_Witness ==
    /\ Succeeded
    /\ \E k \in AllKinds :
          /\ Len(args.recs[k]) = 2
          /\ Raises(k, args.recs[k][1]) /\ ~Raises(k, args.recs[k][2])
          /\ \E n \in 1..Len(m.profiles) : m.profiles[n].src = <<k, 2>>

-----------------------------------------------------------------------------
\* C8: the image make_model returns has one row per image row, each of
\* 'width' values; the value at row i, column j (from 0) is element
\* j + i*width of the evaluated pixel array, and the offset has 2 elements.
C8_RowMajorResult ==
    Succeeded =>
        /\ Len(ret.image) = loc.height
        /\ \A i \in 0..(loc.height - 1) :
              /\ Len(ret.image[i + 1]) = loc.width
              /\ \A j \in 0..(loc.width - 1) :
                    ret.image[i + 1][j + 1] = ev.image.data[(j + i * loc.width) + 1]
        /\ Len(ret.offset) = 2

\* a returned 2 x 2 image whose off-diagonal values differ
C8_Witness ==
    /\ Succeeded
    /\ loc.width = 2 /\ loc.height = 2
    /\ ret.image[1][2] # ret.image[2][1]

-----------------------------------------------------------------------------
\* n = w * h over the integers, without forming a product that a 32-bit
\* word cannot hold
ProductIs(n, w, h) ==
    IF w = 0 \/ h = 0 THEN n = 0 ELSE n % w = 0 /\ n \div w = h

\* C9: every Image or Mask that exists has a data length equal to
\* width x height; a construction whose data length differs throws, and the
\* PSF and mask held by a model satisfy the same.
C9_LengthIsWidthTimesHeight ==
    /\ obj.attempted =>
          (obj.result.threw <=> ~ProductIs(Len(obj.data), obj.width, obj.height))
    /\ (obj.attempted /\ obj.result.val.present) =>
          ProductIs(Len(obj.result.val.data), obj.result.val.width,
                    obj.result.val.height)
    /\ m.psf.present => ProductIs(Len(m.psf.data), m.psf.width, m.psf.height)
    /\ m.mask.present => ProductIs(Len(m.mask.data), m.mask.width, m.mask.height)

-----------------------------------------------------------------------------
\* C10: make_model reads the records under each of sersic, moffat, ferrer,
\* ferrers, king, coresersic, brokenexp, sky, psf and null; a record under
\* 'ferrers' gets the parameter set of a record under 'ferrer'; a key of the
\* mapping that is none of these names adds no profile and raises nothing.
C10_NamesRead ==
    ProfilesRead =>
        /\ \A k \in AllKinds : \A i \in 1..Len(args.recs[k]) :
              IF k \in lib
              THEN \E n \in 1..Len(m.profiles) :
                      m.profiles[n].src = <<k, i>> /\ m.profiles[n].kind = k
              ELSE \E w \in 1..Len(warnings) : warnings[w] = <<k, i>>
        /\ \A n \in 1..Len(m.profiles) :
              /\ m.profiles[n].src[1] \in AllKinds
              /\ m.profiles[n].src[1] = "ferrers" =>
                    LET rec == FromRecord(m.profiles[n])
                        keys == ({"convolve"} \cup Range(FerrerKeys)) \cap DOMAIN rec
                    IN  /\ DOMAIN m.profiles[n].params \subseteq keys
                        /\ ~Raises("ferrers", rec) =>
                              m.profiles[n].params =
                                  [key \in keys |-> Converted(key, rec[key])]
        /\ \A w \in 1..Len(warnings) : warnings[w][1] # OtherKind
        /\ ((\A k \in AllKinds : args.recs[k] = << >>)
               /\ args.omp_threads.tag # "notnum") =>
              /\ m.profiles = << >> /\ warnings = << >>
              /\ pc # "done" => pyerr = NoError
              /\ (pc = "done" /\ ~ev.threw) => (ret.what = "tuple" /\ pyerr = NoError)

\* a record with 'rout' under 'ferrers' next to a record under another key
C10_Witness ==
    /\ Succeeded
    /\ args.recs[OtherKind] # << >>
    /\ Len(args.recs["ferrers"]) = 1
    /\ "rout" \in DOMAIN args.recs["ferrers"][1]
    /\ Len(m.profiles) = 1
    /\ "rout" \in DOMAIN m.profiles[1].params

-----------------------------------------------------------------------------
\* C12: within one make_model call the model is configured (dimensions,
\* scales, PSF, mask, magzero, environment, convolver), then the profiles
\* are read, then evaluate is called, then the result is built: evaluate is
\* called at most once, on the model created by this call and after the
\* last profile was read, and nothing changes the model once it was called.
C12_StepOrder ==
    /\ [][/\ ev' # ev =>
                /\ ev.calls = 0 /\ ev'.calls = 1
                /\ m.created /\ m' = m
                /\ loc.k = Len(KindOrder) + 1
                /\ ret = NotReturned /\ ret' = ret
          /\ m' # m => (ev.calls = 0 /\ ev' = ev /\ ret = NotReturned)
          /\ m'.profiles # m.profiles => m.created
          /\ m.created => [m' EXCEPT !.profiles = m.profiles] = m
          /\ (ret' # ret /\ ret'.what = "tuple") => (ev.calls = 1 /\ ev' = ev)
         ]_vars
    /\ [](Returned =>
            /\ pyerr = "Error reading '\"magzero\"' argument, not a floating point number"
                  => (args.scale_x.tag # "notnum" /\ args.scale_y.tag # "notnum")
            /\ pyerr = "Given openclenv is not of type pyprofit.openclenv"
                  => args.magzero.tag # "notnum")

\* a call that read a profile, evaluated once and returned its image
C12_Witness ==
    /\ Succeeded
    /\ ev.calls = 1
    /\ Len(m.profiles) = 2
    /\ loc.k = Len(KindOrder) + 1

-----------------------------------------------------------------------------
(* The Sersic profile of the C library (sersic.c).                          *)
(*                                                                         *)
(* Coordinates are integers: the unit of length is chosen so that every    *)
(* half-bin the code forms is a whole number of units.  A double that a    *)
(* division by zero makes infinite or not-a-number is kept as such.  nser  *)
(* and acc are held in tenths.  The intensity exp(-bn((r/re)^(1/nser)-1))  *)
(* is kept as the radius it is taken at.                                   *)

\* a double: a whole number of units, an infinity (v its sign) or a NaN
Fin(n) == [k |-> "fin", v |-> n]
Inf(sign) == [k |-> "inf", v |-> sign]
NaN == [k |-> "nan", v |-> 0]

Abs(n) == IF n < 0 THEN -n ELSE n

Sign(n) == IF n < 0 THEN -1 ELSE 1

\* a / b for whole a and b, the quotient being whole whenever b is not 0
Div(a, b) ==
    IF b # 0 THEN Fin(Sign(a) * Sign(b) * (Abs(a) \div Abs(b)))
    ELSE IF a = 0 THEN NaN
    ELSE Inf(Sign(a))

\* fabs(d)
Fabs(d) == IF d.k = "nan" THEN NaN ELSE [k |-> d.k, v |-> Abs(d.v)]

\* a + b for doubles of which b is not negative
Plus(a, b) ==
    IF a.k = "nan" \/ b.k = "nan" THEN NaN
    ELSE IF a.k = "inf" THEN a
    ELSE IF b.k = "inf" THEN b
    ELSE Fin(a.v + b.v)

RECURSIVE Pow(_, _)
\* pow(n, e) for whole n and a whole exponent e >= 0
Pow(n, e) == IF e = 0 THEN 1 ELSE n * Pow(n, e - 1)

\* a radius: r with r^p = pw, or an infinite or undefined one
Radius(p, x, y) ==
    IF x.k = "nan" \/ y.k = "nan" THEN [p |-> p, pw |-> 0, k |-> "nan"]
    ELSE IF x.k = "inf" \/ y.k = "inf" THEN [p |-> p, pw |-> 0, k |-> "inf"]
    ELSE [p |-> p, pw |-> Pow(Abs(x.v), p) + Pow(Abs(y.v), p), k |-> "fin"]

\* the 0 passed for r where the callee computes the radius itself
ZeroRadius == Radius(2, Fin(0), Fin(0))

\* a field of the profile that nothing has assigned yet
Unset == [set |-> FALSE, from |-> << >>]

\* profit_create_sersic: the defaults; the three functions are missing
\* until the caller supplies them, and malloc leaves the computed
\* constants unassigned
profit_create_sersic ==
    [xcen |-> 0, ycen |-> 0, mag |-> 15, re |-> 1, nser10 |-> 10, box |-> 0,
     ang |-> 0, axrat |-> 1, rough |-> FALSE,
     acc10 |-> 1, re_switch |-> 1, resolution |-> 9, max_recursions |-> 2,
     _qgamma |-> FALSE, _gammafn |-> FALSE, _beta |-> FALSE,
     _bn |-> Unset, _ie |-> Unset, _cos_ang |-> Unset, _sin_ang |-> Unset,
     error |-> ""]

\* cos(angrad) for the angles tried, which are multiples of 90 degrees
Cos(ang) == CASE ang % 360 = 0 -> 1
              [] ang % 360 = 180 -> -1
              [] OTHER -> 0

\* sqrt(1 - cos_ang*cos_ang) * (angrad < M_PI ? -1 : 1)
SinFromCos(ang, cos_ang) ==
    (IF cos_ang = 0 THEN 1 ELSE 0) * (IF ang % 360 < 180 THEN -1 ELSE 1)

\* an initialisation that leaves the sine of the rotation angle unassigned
profit_init_sersic_NoSine(sp, magzero) ==
    IF ~sp._qgamma
    THEN [sp EXCEPT !.error = "Missing qgamma function on sersic profile"]
    ELSE IF ~sp._gammafn
    THEN [sp EXCEPT !.error = "Missing gamma function on sersic profile"]
    ELSE IF ~sp._beta
    THEN [sp EXCEPT !.error = "Missing beta function on sersic profile"]
    ELSE [sp EXCEPT
            !._bn = [set |-> TRUE, from |-> <<sp.nser10>>],
            !._ie = [set |-> TRUE,
                     from |-> <<sp.re, sp.nser10, sp.axrat, sp.box, sp.mag, magzero>>],
            !._cos_ang = [set |-> TRUE, from |-> <<Cos(sp.ang)>>]]

\* an initialisation that computes bn before it checks the functions
profit_init_sersic_BnFirst(sp, magzero) ==
    LET t == [sp EXCEPT !._bn = [set |-> TRUE, from |-> <<sp.nser10>>]]
    IN  IF ~sp._qgamma
        THEN [t EXCEPT !.error = "Missing qgamma function on sersic profile"]
        ELSE IF ~sp._gammafn
        THEN [t EXCEPT !.error = "Missing gamma function on sersic profile"]
        ELSE IF ~sp._beta
        THEN [t EXCEPT !.error = "Missing beta function on sersic profile"]
        ELSE [t EXCEPT
                !._ie = [set |-> TRUE,
                         from |-> <<sp.re, sp.nser10, sp.axrat, sp.box, sp.mag, magzero>>],
                !._cos_ang = [set |-> TRUE, from |-> <<Cos(sp.ang)>>],
                !._sin_ang = [set |-> TRUE, from |-> <<SinFromCos(sp.ang, Cos(sp.ang))>>]]

\* profit_init_sersic: the three checks, then bn, Ie and the rotation
\* coefficients; bn and Ie are kept as the parameters they are computed from
profit_init_sersic(sp, magzero) ==
    IF ~sp._qgamma
    THEN [sp EXCEPT !.error = "Missing qgamma function on sersic profile"]
    ELSE IF ~sp._gammafn
    THEN [sp EXCEPT !.error = "Missing gamma function on sersic profile"]
    ELSE IF ~sp._beta
    THEN [sp EXCEPT !.error = "Missing beta function on sersic profile"]
    ELSE [sp EXCEPT
            !._bn = [set |-> TRUE, from |-> <<sp.nser10>>],
            !._ie = [set |-> TRUE,
                     from |-> <<sp.re, sp.nser10, sp.axrat, sp.box, sp.mag, magzero>>],
            !._cos_ang = [set |-> TRUE, from |-> <<Cos(sp.ang)>>],
            !._sin_ang = [set |-> TRUE, from |-> <<SinFromCos(sp.ang, Cos(sp.ang))>>]]

\* _sersic_translate_rotate: the point (x, y) in the profile's frame
_sersic_translate_rotate(sp, x, y) ==
    LET dx == x - sp.xcen
        dy == y - sp.ycen
        c == sp._cos_ang.from[1]
        sn == sp._sin_ang.from[1]
    IN  [x_ser |-> Fin(dx * c + dy * sn),
         y_ser |-> Div(dx * sn - dy * c, sp.axrat)]

\* an intensity function that reuses the radius it is given even when the
\* profile is boxy
_sersic_for_xy_r_ReuseFirst(sp, x, y, r, reuse_r) ==
    IF reuse_r THEN r
    ELSE IF sp.box # 0 THEN Radius(sp.box + 2, Fabs(x), Fabs(y))
    ELSE Radius(2, x, y)

\* _sersic_for_xy_r: the intensity, kept as the radius it is taken at
_sersic_for_xy_r(sp, x, y, r, reuse_r) ==
    IF sp.box # 0 THEN Radius(sp.box + 2, Fabs(x), Fabs(y))
    ELSE IF ~reuse_r THEN Radius(2, x, y)
    ELSE r

\* the accuracy test fabs(testval/subval - 1.0) > acc.  The two intensities
\* are real numbers the model does not compute: the relative difference (in
\* tenths) is taken from how steep the profile is where the sample lies:
\* nowhere ("flat"), everywhere ("steep"), or only in the sub-cells next to
\* the profile centre ("peak").  A quotient of intensities taken at an
\* infinite or undefined radius is a NaN, and no comparison with a NaN holds
RelDiff10(steep, sp, x, y, half_xbin, half_ybin) ==
    CASE steep = "flat" -> 0
      [] steep = "steep" -> 10
      [] OTHER -> IF Abs(x - sp.xcen) <= half_xbin /\ Abs(y - sp.ycen) <= half_ybin
                  THEN 10 ELSE 0

Exceeds(steep, sp, subval, testval, x, y, half_xbin, half_ybin) ==
    /\ subval.k = "fin" /\ testval.k = "fin"
    /\ RelDiff10(steep, sp, x, y, half_xbin, half_ybin) > sp.acc10

\* r_ser/sp->re > sp->re_switch, for re > 0 and re_switch >= 0
BeyondSwitch(sp, r_ser) ==
    CASE r_ser.k = "nan" -> FALSE
      [] r_ser.k = "inf" -> TRUE
      [] OTHER -> r_ser.pw > (sp.re * sp.re_switch) * (sp.re * sp.re_switch)

\* a choice that integrates every pixel within the switch radius unless
\* the profile is rough, whatever its nser
OnePointSample_NoNserTest(sp, r_ser) == sp.rough \/ BeyondSwitch(sp, r_ser)

\* a choice that looks at 'rough' only
OnePointSample_RoughOnly(sp, r_ser) == sp.rough

\* sp->rough || sp->nser < 0.5 || r_ser/sp->re > sp->re_switch: the pixel
\* takes the intensity at its middle and is not integrated
OnePointSample(sp, r_ser) ==
    sp.rough \/ sp.nser10 < 5 \/ BeyondSwitch(sp, r_ser)

\* an integrator that recurses whenever the depth allows, whatever the
\* resolution
SumpixFrame_AnyResolution(sp, x0, x1, y0, y1, recur_level) ==
    LET xbin == IF sp.resolution = 0 THEN 0 ELSE (x1 - x0) \div sp.resolution
        ybin == IF sp.resolution = 0 THEN 0 ELSE (y1 - y0) \div sp.resolution
    IN  [x0 |-> x0, x1 |-> x1, y0 |-> y0, y1 |-> y1, level |-> recur_level,
         xbin |-> xbin, ybin |-> ybin,
         half_xbin |-> xbin \div 2, half_ybin |-> ybin \div 2,
         recurse |-> recur_level < sp.max_recursions,
         i |-> 0, j |-> 0,
         x |-> x0 + xbin \div 2, y |-> y0 + ybin \div 2,
         total |-> 0]

\* an integrator that allows one recursion level more than max_recursions
SumpixFrame_OneLevelMore(sp, x0, x1, y0, y1, recur_level) ==
    LET xbin == IF sp.resolution = 0 THEN 0 ELSE (x1 - x0) \div sp.resolution
        ybin == IF sp.resolution = 0 THEN 0 ELSE (y1 - y0) \div sp.resolution
    IN  [x0 |-> x0, x1 |-> x1, y0 |-> y0, y1 |-> y1, level |-> recur_level,
         xbin |-> xbin, ybin |-> ybin,
         half_xbin |-> xbin \div 2, half_ybin |-> ybin \div 2,
         recurse |-> sp.resolution > 1 /\ recur_level <= sp.max_recursions,
         i |-> 0, j |-> 0,
         x |-> x0 + xbin \div 2, y |-> y0 + ybin \div 2,
         total |-> 0]

\* the locals of one _sersic_sumpix call on entry: the bins, the loop
\* counters and the running total (kept as the number of point estimates
\* summed into it).  With resolution 0 the bins are infinite and unused
SumpixFrame(sp, x0, x1, y0, y1, recur_level) ==
    LET xbin == IF sp.resolution = 0 THEN 0 ELSE (x1 - x0) \div sp.resolution
        ybin == IF sp.resolution = 0 THEN 0 ELSE (y1 - y0) \div sp.resolution
    IN  [x0 |-> x0, x1 |-> x1, y0 |-> y0, y1 |-> y1, level |-> recur_level,
         xbin |-> xbin, ybin |-> ybin,
         half_xbin |-> xbin \div 2, half_ybin |-> ybin \div 2,
         recurse |-> sp.resolution > 1 /\ recur_level < sp.max_recursions,
         i |-> 0, j |-> 0,
         x |-> x0 + xbin \div 2, y |-> y0 + ybin \div 2,
         total |-> 0]

\* a test value taken half a bin further out
SumpixTestval_HalfBin(sp, f, tr) ==
    _sersic_for_xy_r(sp, tr.x_ser,
        Plus(Fabs(tr.y_ser), Fabs(Div(f.half_ybin, sp.axrat))), ZeroRadius, FALSE)

\* testval = _sersic_for_xy_r(sp, x_ser, fabs(y_ser) + fabs(ybin/sp->axrat),
\* 0, false)
SumpixTestval(sp, f, tr) ==
    _sersic_for_xy_r(sp, tr.x_ser,
        Plus(Fabs(tr.y_ser), Fabs(Div(f.ybin, sp.axrat))), ZeroRadius, FALSE)

\* a recursive call over the whole cell instead of the sub-cell
SubCellFrame_WholeCell(sp, f) ==
    SumpixFrame(sp, f.x0, f.x1, f.y0, f.y1, f.level + 1)

\* the recursive call _sersic_sumpix(sp, x - half_xbin, x + half_xbin,
\* y - half_ybin, y + half_ybin, recur_level + 1)
SubCellFrame(sp, f) ==
    SumpixFrame(sp, f.x - f.half_xbin, f.x + f.half_xbin,
                f.y - f.half_ybin, f.y + f.half_ybin, f.level + 1)

\* the end of the body of the inner loop: total += subval, y += half_ybin,
\* j++, and when the inner loop is over x += half_xbin, i++ and the start
\* of the next column
SumpixAdvance(sp, f, subval) ==
    LET g == [f EXCEPT !.total = f.total + subval]
    IN  IF f.j + 1 < sp.resolution
        THEN [g EXCEPT !.j = f.j + 1, !.y = f.y + f.half_ybin + f.half_ybin]
        ELSE [g EXCEPT !.i = f.i + 1, !.j = 0,
                       !.x = f.x + f.half_xbin + f.half_xbin,
                       !.y = f.y0 + f.half_ybin]

\* return total / (sp->resolution * sp->resolution): 0/0 with resolution 0
SumpixValue(sp, f) ==
    [path |-> "sumpix", r |-> ZeroRadius, leaves |-> f.total,
     nan |-> sp.resolution = 0, ie |-> Unset]

\* the value of a pixel evaluated with one point sample
PointValue(r) ==
    [path |-> "point", r |-> r, leaves |-> 1, nan |-> r.k = "nan", ie |-> Unset]

\* a cell of an image that no profile has written
Unwritten ==
    [path |-> "unwritten", r |-> ZeroRadius, leaves |-> 0, nan |-> FALSE, ie |-> Unset]

-----------------------------------------------------------------------------
(* rendering Sersic profiles: the state of one evaluation *)

\* what the last step computed; nothing yet
NoStep ==
    [kind |-> "none", profile |-> 0, x |-> 0, y |-> 0, x_ser |-> Fin(0), y_ser |-> Fin(0),
     r |-> ZeroRadius, test |-> ZeroRadius, tested |-> FALSE, exceeded |-> FALSE,
     level |-> 0]

\* the length unit: a pixel is PixelSize(sp) units wide, so that every bin
\* and half bin down to the deepest recursion is a whole number of units,
\* and stays one when divided by an axis ratio of 2
PixelSize(resolution, max_recursions) ==
    4 * Pow(IF resolution = 0 THEN 1 ELSE resolution, max_recursions + 1)

\* the caller of the profile code evaluates the profiles initialised
\* without an error, in order: the first such profile from index k on
RECURSIVE NextRenderable(_, _)
NextRenderable(profiles, k) ==
    IF k > Len(profiles) THEN k
    ELSE IF profiles[k].error = "" THEN k
    ELSE NextRenderable(profiles, k + 1)

\* the entry of profit_make_sersic for profile k: x = 0, i = 0, x +=
\* half_xbin, y = 0, j = 0, y += half_ybin; with no column or no row the
\* loop bodies never run, for any profile
EnterProfile(s, k) ==
    IF k > Len(s.profiles) \/ s.model.width = 0 \/ s.model.height = 0
    THEN [s EXCEPT !.stage = "done", !.cur = k, !.stack = << >>]
    ELSE [s EXCEPT !.stage = "pixels", !.cur = k, !.stack = << >>,
                   !.i = 0, !.j = 0,
                   !.x = s.model.xbin \div 2, !.y = s.model.ybin \div 2]

\* a pixel write that also rescales the profile's Ie
StorePixel_RescalesIe(s, pixel_val) ==
    LET idx == s.i + s.j * s.model.width
    IN  [s EXCEPT !.images[s.cur][idx] = [pixel_val EXCEPT !.ie = s.profiles[s.cur]._ie],
                  !.writes[s.cur][idx] = s.writes[s.cur][idx] + 1,
                  !.profiles[s.cur]._ie.from = Append(s.profiles[s.cur]._ie.from, idx),
                  !.stage = "pixels", !.stack = << >>]

\* a pixel write at index j + i*model->width
StorePixel_Transposed(s, pixel_val) ==
    LET idx == s.j + s.i * s.model.width
        inside == idx \in DOMAIN s.images[s.cur]
    IN  [s EXCEPT !.images[s.cur] =
                      IF inside
                      THEN [s.images[s.cur] EXCEPT
                              ![idx] = [pixel_val EXCEPT !.ie = s.profiles[s.cur]._ie]]
                      ELSE s.images[s.cur],
                  !.writes[s.cur] =
                      IF inside
                      THEN [s.writes[s.cur] EXCEPT ![idx] = s.writes[s.cur][idx] + 1]
                      ELSE s.writes[s.cur],
                  !.stray = IF inside THEN s.stray ELSE s.stray + 1,
                  !.stage = "pixels", !.stack = << >>]

\* image[i + j*model->width] = bin_area * sp->_ie * pixel_val; the writes of
\* every index are counted, and so are those outside the buffer
StorePixel(s, pixel_val) ==
    LET idx == s.i + s.j * s.model.width
        inside == idx \in DOMAIN s.images[s.cur]
    IN  [s EXCEPT !.images[s.cur] =
                      IF inside
                      THEN [s.images[s.cur] EXCEPT
                              ![idx] = [pixel_val EXCEPT !.ie = s.profiles[s.cur]._ie]]
                      ELSE s.images[s.cur],
                  !.writes[s.cur] =
                      IF inside
                      THEN [s.writes[s.cur] EXCEPT ![idx] = s.writes[s.cur][idx] + 1]
                      ELSE s.writes[s.cur],
                  !.stray = IF inside THEN s.stray ELSE s.stray + 1,
                  !.stage = "pixels", !.stack = << >>]

\* the pixel write and the end of the loop bodies: the next row, the next
\* column, or the end of profit_make_sersic
WritePixel(s, pixel_val) ==
    LET half_xbin == s.model.xbin \div 2
        half_ybin == s.model.ybin \div 2
        t == StorePixel(s, pixel_val)
    IN  IF s.j + 1 < s.model.height
        THEN [t EXCEPT !.j = s.j + 1, !.y = s.y + half_ybin + half_ybin]
        ELSE IF s.i + 1 < s.model.width
        THEN [t EXCEPT !.i = s.i + 1, !.j = 0,
                       !.x = s.x + half_xbin + half_xbin, !.y = half_ybin]
        ELSE EnterProfile(t, NextRenderable(t.profiles, s.cur + 1))

\* the binding's state takes no part in the rendering of a profile
BindingUnchanged ==
    UNCHANGED <<op, focus, pc, args, pyerr, ret, loc, m, lib, warnings, ev, conv, obj,
                gil>>

\* profit_init_sersic on the next profile; after the last one the profiles
\* without an error are rendered
SersicInitProfile ==
    /\ op = "sersic" /\ ser.stage = "created"
    /\ BindingUnchanged
    /\ LET sp == profit_init_sersic(ser.profiles[ser.cur], ser.model.magzero)
           t == [ser EXCEPT !.profiles[ser.cur] = sp,
                            !.inits[ser.cur] = ser.inits[ser.cur] + 1,
                            !.last = [NoStep EXCEPT !.kind = "init", !.profile = ser.cur]]
       IN  ser' = IF ser.cur < Len(ser.profiles)
                  THEN [t EXCEPT !.cur = ser.cur + 1]
                  ELSE EnterProfile(t, NextRenderable(t.profiles, 1))

\* one pass of the body of the pixel loops of profit_make_sersic, up to the
\* call of _sersic_sumpix when the pixel is integrated
SersicPixel ==
    /\ op = "sersic" /\ ser.stage = "pixels"
    /\ BindingUnchanged
    /\ LET sp == ser.profiles[ser.cur]
           tr == _sersic_translate_rotate(sp, ser.x, ser.y)
           r_ser == Radius(2, tr.x_ser, tr.y_ser)
           step == [NoStep EXCEPT !.profile = ser.cur, !.x = ser.x, !.y = ser.y,
                                  !.x_ser = tr.x_ser, !.y_ser = tr.y_ser]
           t == [ser EXCEPT !.calls = 0, !.evals = 0, !.tests = 0, !.maxlevel = 0]
       IN  IF OnePointSample(sp, r_ser)
           THEN LET r == _sersic_for_xy_r(sp, tr.x_ser, tr.y_ser, r_ser, TRUE)
                IN  ser' = WritePixel([t EXCEPT !.evals = 1,
                                          !.last = [step EXCEPT !.kind = "fast", !.r = r]],
                                      PointValue(r))
           ELSE ser' = [t EXCEPT
                          !.stage = "sumpix", !.calls = 1,
                          !.last = [step EXCEPT !.kind = "call"],
                          !.stack = <<SumpixFrame(sp,
                                         ser.x - ser.model.xbin \div 2,
                                         ser.x + ser.model.xbin \div 2,
                                         ser.y - ser.model.ybin \div 2,
                                         ser.y + ser.model.ybin \div 2, 0)>>]

\* one pass of the body of the loops of _sersic_sumpix, up to the recursive
\* call when the sub-cell is subdivided
SersicSumpixCell ==
    /\ op = "sersic" /\ ser.stage = "sumpix"
    /\ LET sp == ser.profiles[ser.cur]
           d == Len(ser.stack)
           f == ser.stack[d]
           tr == _sersic_translate_rotate(sp, f.x, f.y)
           subval == _sersic_for_xy_r(sp, tr.x_ser, tr.y_ser, ZeroRadius, FALSE)
           testval == SumpixTestval(sp, f, tr)
           exceeded == f.recurse /\ Exceeds(ser.steep, sp, subval, testval,
                                            f.x, f.y, f.half_xbin, f.half_ybin)
           step == [kind |-> "sub", profile |-> ser.cur, x |-> f.x, y |-> f.y,
                    x_ser |-> tr.x_ser, y_ser |-> tr.y_ser, r |-> subval,
                    test |-> IF f.recurse THEN testval ELSE ZeroRadius,
                    tested |-> f.recurse, exceeded |-> exceeded, level |-> f.level]
           t == [ser EXCEPT !.last = step, !.evals = ser.evals + 1,
                            !.tests = ser.tests + (IF f.recurse THEN 1 ELSE 0)]
       IN  /\ f.i < sp.resolution
           /\ ser' = IF exceeded
                     THEN [t EXCEPT
                             !.calls = ser.calls + 1,
                             !.maxlevel = IF f.level + 1 > ser.maxlevel
                                          THEN f.level + 1 ELSE ser.maxlevel,
                             !.stack = Append(ser.stack, SubCellFrame(sp, f))]
                     ELSE [t EXCEPT !.stack[d] = SumpixAdvance(sp, f, 1)]
    /\ BindingUnchanged

\* the return of a _sersic_sumpix call: to the call that subdivided, which
\* adds the average to its total, or to profit_make_sersic, which writes
\* the pixel
SersicSumpixReturn ==
    /\ op = "sersic" /\ ser.stage = "sumpix"
    /\ LET sp == ser.profiles[ser.cur]
           d == Len(ser.stack)
           f == ser.stack[d]
           val == SumpixValue(sp, f)
           t == [ser EXCEPT !.last = [NoStep EXCEPT !.kind = "return",
                                         !.profile = ser.cur, !.level = f.level]]
       IN  /\ f.i >= sp.resolution
           /\ ser' = IF d = 1
                     THEN WritePixel(t, val)
                     ELSE [t EXCEPT !.stack = [k \in 1..(d - 1) |->
                               IF k = d - 1
                               THEN SumpixAdvance(sp, ser.stack[k], val.leaves)
                               ELSE ser.stack[k]]]
    /\ BindingUnchanged

\* the groups of inputs tried on the profile code: the function pointers
\* and the axis ratio ("init"), the choice between one point sample and the
\* integration ("path"), and the integration itself ("sumpix")
SersicFocuses == {"init", "path", "sumpix"}

Steeps == {"flat", "peak", "steep"}

\* the profiles of a model, the first element of each pair being the
\* steepness the accuracy test sees; where the centre lies matters to the
\* test only for a profile peaked at its centre
SersicProfiles(f) ==
    CASE f = "init" ->
           LET U == PixelSize(1, 0)
               P == {[profit_create_sersic EXCEPT
                        !.re = U, !.re_switch = 8, !.resolution = 1,
                        !.max_recursions = 0, !.axrat = a,
                        !._qgamma = q, !._gammafn = g, !._beta = b] :
                     a \in {1}, q \in BOOLEAN, g \in BOOLEAN, b \in BOOLEAN}
               Q == {[profit_create_sersic EXCEPT
                        !.re = U, !.re_switch = 8, !.resolution = 1,
                        !.max_recursions = 0, !.axrat = a,
                        !._qgamma = TRUE, !._gammafn = TRUE, !._beta = TRUE] :
                     a \in {-1, 0, 2}}
           IN  {<<"flat", <<p1, p2>>>> : p1 \in P \cup Q, p2 \in P}
      [] f = "path" ->
           LET U == PixelSize(2, 1)
               P == {[profit_create_sersic EXCEPT
                        !.re = U, !.re_switch = s, !.resolution = 2,
                        !.max_recursions = 1, !.nser10 = n, !.box = bx, !.ang = an,
                        !.xcen = U \div 2, !.ycen = U \div 2,
                        !._qgamma = TRUE, !._gammafn = TRUE, !._beta = TRUE] :
                     s \in {1, 8}, n \in {3, 5, 10}, bx \in {0, 1},
                     an \in {0, 90, 180, 270}}
           IN  {<<"peak", <<[p EXCEPT !.rough = TRUE], p>>>> : p \in P}
               \cup {<<"peak", <<p, p>>>> : p \in {q \in P : q.re_switch = 1 /\ q.ang = 90 /\ q.nser10 = 10 /\ q.box = 0}}
      [] OTHER ->
           UNION {LET U == PixelSize(res, mr)
                  IN  {<<st, <<[profit_create_sersic EXCEPT
                                  !.re = U, !.re_switch = 8, !.resolution = res,
                                  !.max_recursions = mr, !.acc10 = ac, !.axrat = a,
                                  !.xcen = c, !.ycen = c,
                                  !._qgamma = TRUE, !._gammafn = TRUE, !._beta = TRUE]>>>> :
                       ac \in {1, 10}, a \in {0, 1, 2},
                       c \in IF st = "peak" THEN {0, U \div 2} ELSE {0}} :
                 res \in 0..MaxResolution, mr \in 0..MaxRecursions, st \in Steeps}

\* the state of an evaluation before any profile is initialised
SersicModel(steep, profiles, width, height, magzero) ==
    LET U == PixelSize(profiles[1].resolution, profiles[1].max_recursions)
    IN  [stage |-> "created",
         model |-> [width |-> width, height |-> height, xbin |-> U, ybin |-> U,
                    magzero |-> magzero],
         steep |-> steep, profiles |-> profiles, cur |-> 1,
         images |-> [k \in 1..Len(profiles) |->
                       [c \in 0..(width * height - 1) |-> Unwritten]],
         i |-> 0, j |-> 0, x |-> 0, y |-> 0, stack |-> << >>, last |-> NoStep,
         calls |-> 0, evals |-> 0, tests |-> 0, maxlevel |-> 0,
         inits |-> [k \in 1..Len(profiles) |-> 0],
         writes |-> [k \in 1..Len(profiles) |->
                       [c \in 0..(width * height - 1) |-> 0]],
         stray |-> 0]

\* the image is of every width and height for the "path" profiles, zero
\* included; an image without pixels is tried with the unrotated plain
\* profiles only, no profile being sampled in it
SersicInit ==
    /\ op = "sersic"
    /\ focus \in SersicFocuses
    /\ pc = "start"
    /\ args = NoArgs
    /\ lib = AllKinds
    /\ pyerr = NoError
    /\ ret = NotReturned
    /\ loc = NoLocals
    /\ m = NoModel
    /\ warnings = << >>
    /\ ev = NoEvaluation
    /\ conv = NoConvolver
    /\ obj = NoObject
    /\ gil = NoLock
    /\ \E sp \in SersicProfiles(focus), w \in 0..MaxDim, h \in 0..MaxDim :
          /\ focus = "path" \/ (w = 1 /\ h = 1)
          /\ (w > 0 /\ h > 0) \/ (sp[2][1].rough /\ sp[2][2].ang = 0 /\ sp[2][2].box = 0)
          /\ ser = SersicModel(sp[1], sp[2], w, h, 0)

SersicNext ==
    \/ SersicInitProfile
    \/ SersicPixel
    \/ SersicSumpixCell
    \/ SersicSumpixReturn

SersicSpec == SersicInit /\ [][SersicNext]_vars

\* the rendering is one thread running to its end: it never stops while a
\* step is left; followed for the models whose one pixel is integrated
FairSersicInit == SersicInit /\ focus = "sumpix"

FairSersicSpec == FairSersicInit /\ [][SersicNext]_vars /\ WF_vars(SersicNext)

-----------------------------------------------------------------------------
(* the interpreter lock around the library calls: the region between       *)
(* Py_BEGIN_ALLOW_THREADS and Py_END_ALLOW_THREADS of make_model and        *)
(* make_convolver, and of make_model of the C binding, with the other       *)
(* threads of the interpreter running while the lock is free                *)

MakeModelC == "make_model (pyprofit.c)"

LockOps == {"make_model", "make_convolver", MakeModelC}

\* what one step of the calling thread did to the interpreter: whether the
\* thread held the lock, the Python API functions it called and the Python
\* objects whose memory it wrote
NoLockStep == [step |-> "none", held |-> TRUE, api |-> {}, written |-> {}]

\* on entry of the region the caller holds the lock, the local 'error' is
\* empty and the convolver field of the new PyConvolver object is not set
LockHeld ==
    [holder |-> "caller", error |-> "", stored |-> FALSE, other_ran |-> FALSE,
     last |-> NoLockStep]

NothingCaught == [error |-> "", pyerr |-> NoError, api |-> {}]

\* a handler that sets the Python error where the exception is caught
CatchHandler_SetsPythonError(what) ==
    [error |-> what, pyerr |-> what, api |-> {"PyErr_SetString"}]

\* catch (std::exception &e) { error = e.what(); }
CatchHandler(what) == [error |-> what, pyerr |-> NoError, api |-> {}]

LockInit ==
    /\ op \in LockOps
    /\ focus = "lock"
    /\ pc = "begin"
    /\ args = NoArgs
    /\ lib = AllKinds
    /\ pyerr = NoError
    /\ ret = NotReturned
    /\ \E w \in 0..MaxDim, h \in 0..MaxDim :
          IF op = "make_convolver"
          THEN /\ loc = [NoLocals EXCEPT !.width = w, !.height = h]
               /\ m = NoModel
          ELSE /\ loc = NoLocals
               /\ m = [NoModel EXCEPT !.created = TRUE, !.dims = <<w, h>>]
    /\ warnings = << >>
    /\ ev = NoEvaluation
    /\ conv = NoConvolver
    /\ obj = NoObject
    /\ ser = NoSersic
    /\ gil = LockHeld

\* Py_BEGIN_ALLOW_THREADS: the calling thread gives the lock up
BeginAllowThreads ==
    /\ focus = "lock" /\ pc = "begin"
    /\ gil' = [gil EXCEPT !.holder = "none",
                          !.last = [NoLockStep EXCEPT !.step = "release",
                                                      !.api = {"PyEval_SaveThread"}]]
    /\ pc' = "call"
    /\ UNCHANGED <<op, focus, args, pyerr, ret, loc, m, lib, warnings, ev, conv, obj, ser>>

\* try { image = m.evaluate(offset); } catch (std::exception &e) { ... }
LockedEvaluate ==
    /\ focus = "lock" /\ op = "make_model" /\ pc = "call"
    /\ \E runtime_failure \in BOOLEAN :
          LET e == Model_evaluate(m, runtime_failure, ev.calls)
              h == IF e.threw THEN CatchHandler(e.error) ELSE NothingCaught
          IN  /\ ev' = e
              /\ gil' = [gil EXCEPT !.error = h.error,
                                    !.last = [step |-> "evaluate",
                                              held |-> gil.holder = "caller",
                                              api |-> h.api, written |-> {}]]
              /\ pyerr' = IF h.pyerr # NoError THEN h.pyerr ELSE pyerr
    /\ pc' = "end"
    /\ UNCHANGED <<op, focus, args, ret, loc, m, lib, warnings, conv, obj, ser>>

\* try { ((PyConvolver *)convolver_ptr)->convolver = create_convolver(...); }
\* catch (std::exception &e) { ... }: the assignment takes place when
\* create_convolver returns
LockedCreateConvolver ==
    /\ focus = "lock" /\ op = "make_convolver" /\ pc = "call"
    /\ \E throws \in BOOLEAN :
          LET h == IF throws THEN CatchHandler("create_convolver failed")
                   ELSE NothingCaught
          IN  /\ conv' = [calls |-> conv.calls + 1,
                          krn_dims |-> <<loc.psf.w, loc.psf.h>>,
                          src_dims |-> <<loc.width, loc.height>>]
              /\ gil' = [gil EXCEPT !.error = h.error,
                                    !.stored = ~throws,
                                    !.last = [step |-> "create_convolver",
                                              held |-> gil.holder = "caller",
                                              api |-> h.api,
                                              written |-> IF throws THEN {}
                                                          ELSE {"convolver_ptr"}]]
              /\ pyerr' = IF h.pyerr # NoError THEN h.pyerr ELSE pyerr
    /\ pc' = "end"
    /\ UNCHANGED <<op, focus, args, ret, loc, m, lib, warnings, ev, obj, ser>>

\* profit_make_model(m); error = profit_get_error(m);
LockedMakeModel ==
    /\ focus = "lock" /\ op = MakeModelC /\ pc = "call"
    /\ \E runtime_failure \in BOOLEAN :
          LET e == Model_evaluate(m, runtime_failure, ev.calls)
          IN  /\ ev' = e
              /\ gil' = [gil EXCEPT !.error = e.error,
                                    !.last = [step |-> "profit_make_model",
                                              held |-> gil.holder = "caller",
                                              api |-> {}, written |-> {}]]
    /\ pc' = "end"
    /\ UNCHANGED <<op, focus, args, pyerr, ret, loc, m, lib, warnings, conv, obj, ser>>

\* Py_END_ALLOW_THREADS: the calling thread waits until the lock is free
\* and takes it
EndAllowThreads ==
    /\ focus = "lock" /\ pc = "end"
    /\ gil.holder = "none"
    /\ gil' = [gil EXCEPT !.holder = "caller",
                          !.last = [NoLockStep EXCEPT !.step = "acquire",
                                                      !.api = {"PyEval_RestoreThread"}]]
    /\ pc' = "check"
    /\ UNCHANGED <<op, focus, args, pyerr, ret, loc, m, lib, warnings, ev, conv, obj, ser>>

\* if( !error.empty() ) the Python error is set and NULL returned;
\* otherwise the result is built and returned
CheckError ==
    /\ focus = "lock" /\ pc = "check"
    /\ IF gil.error # ""
       THEN /\ Raise(gil.error)
            /\ gil' = [gil EXCEPT !.last = [step |-> "raise",
                                            held |-> gil.holder = "caller",
                                            api |-> {"PyErr_SetString"},
                                            written |-> {}]]
       ELSE /\ ret' = CASE op = "make_convolver" ->
                              [what |-> "convolver", image |-> << >>, offset |-> << >>]
                         [] op = MakeModelC ->
                              [BuildResult(ev.image, ev.offset) EXCEPT !.offset = << >>]
                         [] OTHER -> BuildResult(ev.image, ev.offset)
            /\ pc' = "done"
            /\ gil' = [gil EXCEPT !.last = [step |-> "result",
                                            held |-> gil.holder = "caller",
                                            api |-> IF op = "make_convolver" THEN {}
                                                    ELSE {"PyTuple_New"},
                                            written |-> IF op = "make_convolver" THEN {}
                                                        ELSE {"image_tuple"}]]
            /\ UNCHANGED pyerr
    /\ UNCHANGED <<op, focus, args, loc, m, lib, warnings, ev, conv, obj, ser>>

\* another thread of the interpreter takes the free lock and runs Python
\* code
OtherThreadRuns ==
    /\ focus = "lock" /\ gil.holder = "none"
    /\ gil' = [gil EXCEPT !.holder = "other", !.other_ran = TRUE]
    /\ UNCHANGED <<op, focus, pc, args, pyerr, ret, loc, m, lib, warnings, ev, conv,
                   obj, ser>>

\* the other thread gives the lock up
OtherThreadYields ==
    /\ focus = "lock" /\ gil.holder = "other"
    /\ gil' = [gil EXCEPT !.holder = "none"]
    /\ UNCHANGED <<op, focus, pc, args, pyerr, ret, loc, m, lib, warnings, ev, conv,
                   obj, ser>>

LockNext ==
    \/ BeginAllowThreads
    \/ LockedEvaluate
    \/ LockedCreateConvolver
    \/ LockedMakeModel
    \/ EndAllowThreads
    \/ CheckError
    \/ OtherThreadRuns
    \/ OtherThreadYields

LockSpec == LockInit /\ [][LockNext]_vars

-----------------------------------------------------------------------------
\* the value a model item has after READ_DOUBLE when its default is d
ItemOr(item, d) == IF item.tag = "absent" THEN d ELSE item.n

\* the defaults of profit_create_sersic under the keys make_model reads
SersicDefaults ==
    [xcen |-> profit_create_sersic.xcen, ycen |-> profit_create_sersic.ycen,
     mag |-> profit_create_sersic.mag, re |-> profit_create_sersic.re,
     nser |-> profit_create_sersic.nser10 \div 10, box |-> profit_create_sersic.box,
     ang |-> profit_create_sersic.ang, axrat |-> profit_create_sersic.axrat,
     rough |-> 0, rscale_switch |-> profit_create_sersic.re_switch,
     resolution |-> profit_create_sersic.resolution,
     max_recursions |-> profit_create_sersic.max_recursions]

\* the value of a parameter of a Sersic profile of the model: the one
\* assigned from the record, or the default the profile was created with
SersicParameter(p, key) ==
    IF key \in DOMAIN p.params THEN p.params[key] ELSE SersicDefaults[key]

\* C11: a parameter of the model or of a profile is assigned only when its
\* key is in the record and in the list of keys read for the kind: an
\* absent scale_x, scale_y or magzero leaves 1, 1 and 0, a key absent from
\* a profile record leaves the profile's default, and a key outside the
\* kind's list (such as "zz") is never read and assigns nothing.
C11_OnlyListedPresentKeysAssigned ==
    (op = "make_model" /\ m.created) =>
        /\ m.scale = <<ItemOr(args.scale_x, 1), ItemOr(args.scale_y, 1)>>
        /\ m.magzero = ItemOr(args.magzero, 0)
        /\ \A n \in 1..Len(m.profiles) :
              LET p == m.profiles[n]
                  rec == FromRecord(p)
              IN  /\ DOMAIN p.params \subseteq (KeysRead(p.kind) \cap DOMAIN rec)
                  /\ "zz" \notin DOMAIN p.params
                  /\ \A key \in DOMAIN p.params : p.params[key] = Converted(key, rec[key])
                  /\ p.kind = "sersic" =>
                        \A key \in DOMAIN SersicDefaults \ DOMAIN rec :
                           SersicParameter(p, key) = SersicDefaults[key]

C11_Witness ==
    /\ op = "make_model" /\ m.created /\ pc = "done"
    /\ args.scale_x.tag = "absent" /\ args.magzero.tag = "absent"
    /\ \E n \in 1..Len(m.profiles) :
          /\ m.profiles[n].kind = "sersic"
          /\ "zz" \in DOMAIN FromRecord(m.profiles[n])
          /\ "axrat" \notin DOMAIN FromRecord(m.profiles[n])
          /\ "nser" \in DOMAIN m.profiles[n].params

-----------------------------------------------------------------------------
\* profit_init_sersic has run on profile k
Initialised(k) == ser.stage # "created" \/ k < ser.cur

\* the last step evaluated a pixel, or a sample of a pixel, of a profile
Evaluated == ser.last.kind \in {"fast", "call", "sub"}

\* C13: initialising a Sersic profile whose axis ratio is not greater than
\* 0 records an invalid-parameter error on that profile, and no pixel of
\* the profile is evaluated with such an axis ratio.
C13_AxratRejected ==
    /\ \A k \in 1..Len(ser.profiles) :
          (Initialised(k) /\ ser.profiles[k].axrat <= 0 /\ ser.profiles[k]._qgamma
             /\ ser.profiles[k]._gammafn /\ ser.profiles[k]._beta)
             => ser.profiles[k].error # ""
    /\ Evaluated => ser.profiles[ser.last.profile].axrat > 0

-----------------------------------------------------------------------------
\* one of the three functions is unavailable to the profile
FunctionMissing(sp) == ~sp._qgamma \/ ~sp._gammafn \/ ~sp._beta

\* C14: when the inverse-regularized-gamma, the gamma or the beta function
\* is unavailable, the initialisation of a Sersic profile records an error
\* on that profile and changes nothing else: bn, Ie and the rotation
\* coefficients stay unassigned, and every other profile, the model and the
\* images are as before.
C14_MissingFunctionOnlyRecordsError ==
    [][(ser.stage = "created" /\ FunctionMissing(ser.profiles[ser.cur])) =>
          /\ ser'.profiles[ser.cur].error # ""
          /\ ser'.profiles[ser.cur] =
                [ser.profiles[ser.cur] EXCEPT !.error = ser'.profiles[ser.cur].error]
          /\ ser'.profiles[ser.cur]._bn = Unset /\ ser'.profiles[ser.cur]._ie = Unset
          /\ ser'.profiles[ser.cur]._cos_ang = Unset
          /\ ser'.profiles[ser.cur]._sin_ang = Unset
          /\ \A k \in 1..Len(ser.profiles) :
                k # ser.cur => ser'.profiles[k] = ser.profiles[k]
          /\ ser'.model = ser.model
          /\ ser'.images = ser.images]_vars

C14_Witness ==
    /\ op = "sersic" /\ ser.stage = "done" /\ Len(ser.profiles) = 2
    /\ ser.profiles[1].error = "Missing gamma function on sersic profile"
    /\ ser.profiles[1]._bn = Unset
    /\ ser.profiles[2].error = "" /\ ser.profiles[2]._bn.set
    /\ ser.images[1][0] = Unwritten
    /\ ser.images[2][0].path = "sumpix"

-----------------------------------------------------------------------------
\* C15: the radius the intensity function uses at the transformed point
\* (x', y') is the Euclidean radius sqrt(x'^2 + y'^2) when box = 0, on the
\* fast path (which reuses the radius computed for the switch test) and in
\* the integration (which recomputes it), and is (|x'|^p + |y'|^p)^(1/p)
\* with p = box + 2 when box is not 0.
C15_RadiusUsed ==
    (op = "sersic" /\ ser.last.kind \in {"fast", "sub"}) =>
        LET sp == ser.profiles[ser.last.profile]
            x == ser.last.x_ser
            y == ser.last.y_ser
            r == ser.last.r
            finite == x.k = "fin" /\ y.k = "fin"
            p == IF sp.box = 0 THEN 2 ELSE sp.box + 2
        IN  /\ r.p = p
            /\ finite <=> r.k = "fin"
            /\ finite =>
                  r.pw = IF sp.box = 0 THEN x.v * x.v + y.v * y.v
                         ELSE Pow(Abs(x.v), p) + Pow(Abs(y.v), p)

C15_Witness ==
    /\ op = "sersic" /\ ser.last.kind = "sub" /\ ser.last.profile = 2
    /\ ser.profiles[2].box = 0 /\ ser.last.r.k = "fin" /\ ser.last.r.pw > 0
    /\ ser.model.width = 2
    /\ ser.images[1][1].path = "point" /\ ser.images[1][1].r.p = 2
    /\ ser.images[1][1].r.pw > 0

-----------------------------------------------------------------------------
\* two profiles that differ in 'rough' only have been rendered into images
\* that hold the pixel of their centre
RoughAndFineRendered ==
    /\ op = "sersic" /\ focus = "path" /\ ser.stage = "done"
    /\ ser.model.width > 0 /\ ser.model.height > 0
    /\ ser.profiles[1].rough /\ ~ser.profiles[2].rough
    /\ ser.profiles[2].resolution > 1 /\ ser.profiles[2].max_recursions > 0
    /\ ser.profiles[1] = [ser.profiles[2] EXCEPT !.rough = TRUE]

\* the pixel that contains the centre of profile k
CentrePixel(k) ==
    (ser.profiles[k].xcen \div ser.model.xbin)
        + (ser.profiles[k].ycen \div ser.model.ybin) * ser.model.width

\* C16 as stated: with nser = 0.3 the pixel that contains the centre has
\* one value in rough mode and another with the adaptive integration.
C16_CentreDiffersAtLowNser ==
    (RoughAndFineRendered /\ ser.profiles[1].nser10 = 3) =>
        ser.images[1][CentrePixel(1)] # ser.images[2][CentrePixel(2)]

\* C16, amended: nser < 0.5 selects the single point sample whatever
\* 'rough' is, so with nser = 0.3 the two modes give the same value at
\* every pixel, the centre included.  The modes differ only for nser >=
\* 0.5, at the pixels that are integrated, and the pixel at the centre of
\* such a profile is one of them.
C16_ModesDifferOnlyFromHalf ==
    RoughAndFineRendered =>
        /\ ser.profiles[1].nser10 < 5 => ser.images[1] = ser.images[2]
        /\ \A c \in DOMAIN ser.images[1] :
              /\ ser.images[1][c].path = "point"
              /\ ser.images[1][c] # ser.images[2][c] =>
                    (ser.profiles[2].nser10 >= 5 /\ ser.images[2][c].path = "sumpix")
        /\ ser.profiles[1].nser10 >= 5 =>
              /\ ser.images[2][CentrePixel(2)].path = "sumpix"
              /\ ser.images[1][CentrePixel(1)] # ser.images[2][CentrePixel(2)]

C16_Witness ==
    /\ RoughAndFineRendered /\ ser.profiles[1].nser10 = 3
    /\ ser.images[2][CentrePixel(2)].path = "point"
    /\ ser.images[2][CentrePixel(2)].r.pw = 0
    /\ ser.images[1][CentrePixel(1)] = ser.images[2][CentrePixel(2)]

-----------------------------------------------------------------------------
\* a pixel of the profile being rendered is in the integrator
Integrating == op = "sersic" /\ ser.stage = "sumpix"

\* C17: with resolution 0 or 1 the integrator makes no recursive call,
\* whatever acc, max_recursions and the steepness of the profile are: the
\* only _sersic_sumpix call of a pixel is the one made by
\* profit_make_sersic, at level 0, and no accuracy test is evaluated.
C17_NoRecursionBelowResolutionTwo ==
    /\ (Integrating /\ ser.profiles[ser.cur].resolution <= 1) =>
          /\ Len(ser.stack) = 1 /\ ser.stack[1].level = 0
          /\ ser.calls = 1 /\ ser.maxlevel = 0 /\ ser.tests = 0
    /\ (op = "sersic" /\ ser.last.kind \in {"sub", "return"}
          /\ ser.profiles[ser.last.profile].resolution <= 1) =>
          ser.last.level = 0 /\ ~ser.last.exceeded

C17_Witness ==
    /\ op = "sersic" /\ ser.stage = "done" /\ ser.steep = "steep"
    /\ ser.profiles[1].resolution = 1 /\ ser.profiles[1].max_recursions = MaxRecursions
    /\ ser.profiles[1].acc10 = 1 /\ ser.profiles[1].axrat = 1
    /\ ser.images[1][0].path = "sumpix" /\ ser.images[1][0].leaves = 1
    /\ ser.calls = 1 /\ ser.evals = 1

-----------------------------------------------------------------------------
\* the next step of the integrator handles a sub-cell of its innermost call
AtSubCell ==
    /\ Integrating
    /\ ser.stack[Len(ser.stack)].i < ser.profiles[ser.cur].resolution

\* C19: the integrator subdivides a sub-cell, by a call at the recursion
\* depth plus one over exactly the extent of that sub-cell, if and only if
\* the relative difference |test/sub - 1| exceeds acc, resolution > 1 and
\* the recursion depth is below max_recursions; otherwise it adds the
\* sub-cell's single point estimate to the total and makes no call.
C19_SubdivideIffAllThree ==
    [][AtSubCell =>
          LET sp == ser.profiles[ser.cur]
              d == Len(ser.stack)
              f == ser.stack[d]
              w == (f.x1 - f.x0) \div sp.resolution
              h == (f.y1 - f.y0) \div sp.resolution
              tr == _sersic_translate_rotate(sp, f.x, f.y)
              sub == _sersic_for_xy_r(sp, tr.x_ser, tr.y_ser, ZeroRadius, FALSE)
              test == _sersic_for_xy_r(sp, tr.x_ser,
                          Plus(Fabs(tr.y_ser), Fabs(Div(h, sp.axrat))), ZeroRadius, FALSE)
              exceeds == Exceeds(ser.steep, sp, sub, test, f.x, f.y, w \div 2, h \div 2)
              subdivided == Len(ser'.stack) = d + 1
          IN  /\ subdivided <=>
                    (exceeds /\ sp.resolution > 1 /\ f.level < sp.max_recursions)
              /\ subdivided =>
                    /\ ser'.stack[d + 1].level = f.level + 1
                    /\ ser'.stack[d + 1].x0 = f.x0 + f.i * w
                    /\ ser'.stack[d + 1].x1 = f.x0 + (f.i + 1) * w
                    /\ ser'.stack[d + 1].y0 = f.y0 + f.j * h
                    /\ ser'.stack[d + 1].y1 = f.y0 + (f.j + 1) * h
                    /\ ser'.stack[d + 1].total = 0
                    /\ \A k \in 1..d : ser'.stack[k] = ser.stack[k]
              /\ ~subdivided =>
                    /\ Len(ser'.stack) = d
                    /\ ser'.stack[d].total = f.total + 1
                    /\ ser'.calls = ser.calls
                    /\ ser'.last.r = sub
                    /\ \A k \in 1..(d - 1) : ser'.stack[k] = ser.stack[k]]_vars

C19_Witness ==
    /\ Integrating /\ ser.steep = "peak" /\ Len(ser.stack) = 3
    /\ ser.last.kind = "sub" /\ ser.last.exceeded /\ ser.last.level = 1
    /\ ser.stack[3].level = 2 /\ ser.stack[3].total = 0
    /\ ser.stack[2].total = 3
    /\ ser.profiles[1].max_recursions = 2

-----------------------------------------------------------------------------
RECURSIVE CellsDownTo(_, _)
\* resolution^2 + resolution^4 + ... + resolution^(2*(levels)): the
\* sub-cells of the calls of the levels 0 .. levels - 1 when every
\* sub-cell is subdivided
CellsDownTo(resolution, levels) ==
    IF levels = 0 THEN 0
    ELSE Pow(resolution, 2 * levels) + CellsDownTo(resolution, levels - 1)

\* the calls in progress are nested depth-first: the call at position k
\* of the stack is at level k - 1 and was made for the sub-cell its caller
\* is stopped at
DepthFirst ==
    \A k \in 1..Len(ser.stack) :
       /\ ser.stack[k].level = k - 1
       /\ k > 1 =>
             LET f == ser.stack[k - 1]
             IN  /\ ser.stack[k].x0 = f.x - f.half_xbin
                 /\ ser.stack[k].x1 = f.x + f.half_xbin
                 /\ ser.stack[k].y0 = f.y - f.half_ybin
                 /\ ser.stack[k].y1 = f.y + f.half_ybin

\* the levels and the nesting of the calls of one pixel
DepthBounded ==
    LET sp == ser.profiles[ser.cur]
    IN  /\ \A k \in 1..Len(ser.stack) : ser.stack[k].level <= sp.max_recursions
        /\ ser.maxlevel <= sp.max_recursions
        /\ Len(ser.stack) <= sp.max_recursions + 1

\* C20 as stated: the level of a _sersic_sumpix call never exceeds
\* max_recursions, at most max_recursions + 1 calls are nested, and at most
\* resolution^(2*(max_recursions+1)) point samples are taken for a pixel.
C20_SamplesWithinPower ==
    Integrating =>
        /\ DepthBounded
        /\ ser.evals <= Pow(ser.profiles[ser.cur].resolution,
                            2 * (ser.profiles[ser.cur].max_recursions + 1))

\* C20, amended: the integration of a pixel terminates, its calls being
\* nested depth-first; no call is at a level above max_recursions and at
\* most max_recursions + 1 calls are nested; at most
\* resolution^(2*(max_recursions+1)) point estimates are summed into the
\* value of the pixel, but the samples taken are more, because a sub-cell
\* is sampled before it is subdivided: up to resolution^2 + resolution^4 +
\* ... + resolution^(2*(max_recursions+1)) sub-cell samples, and one test
\* sample more for every sub-cell of a level below max_recursions.
C20_TerminatesWithinSummedPowers ==
    /\ <>(ser.stage = "done")
    /\ [](Integrating =>
            LET sp == ser.profiles[ser.cur]
            IN  /\ DepthBounded
                /\ DepthFirst
                /\ ser.stack[1].total <= Pow(sp.resolution, 2 * (sp.max_recursions + 1))
                /\ ser.evals <= CellsDownTo(sp.resolution, sp.max_recursions + 1)
                /\ ser.tests <= CellsDownTo(sp.resolution, sp.max_recursions))

C20_Witness ==
    /\ op = "sersic" /\ ser.stage = "done" /\ ser.steep = "steep"
    /\ ser.profiles[1].resolution = MaxResolution
    /\ ser.profiles[1].max_recursions = MaxRecursions
    /\ ser.maxlevel = MaxRecursions
    /\ ser.images[1][0].leaves = Pow(MaxResolution, 2 * (MaxRecursions + 1))
    /\ ser.evals = CellsDownTo(MaxResolution, MaxRecursions + 1)
    /\ ser.evals > Pow(MaxResolution, 2 * (MaxRecursions + 1))
    /\ ser.tests = CellsDownTo(MaxResolution, MaxRecursions)

-----------------------------------------------------------------------------
\* the last step chose how the pixel (ser.last.x, ser.last.y) is evaluated
PathChosen == op = "sersic" /\ ser.last.kind \in {"fast", "call"}

\* r/re > re_switch at the middle of the pixel the last step handled
SwitchHolds ==
    LET sp == ser.profiles[ser.last.profile]
        x == ser.last.x_ser
        y == ser.last.y_ser
    IN  CASE x.k = "nan" \/ y.k = "nan" -> FALSE
          [] x.k = "inf" \/ y.k = "inf" -> TRUE
          [] OTHER -> x.v * x.v + y.v * y.v
                         > (sp.re * sp.re_switch) * (sp.re * sp.re_switch)

\* C21 as stated: a pixel takes one point sample exactly when rough is set
\* or r/re > re_switch at its middle, and is integrated otherwise whatever
\* nser is.
C21_PointSampleIffRoughOrSwitch ==
    PathChosen =>
        (ser.last.kind = "fast" <=>
            (ser.profiles[ser.last.profile].rough \/ SwitchHolds))

\* C21, amended: a pixel takes one point sample at its middle exactly when
\* rough is set, or nser < 0.5, or r/re > re_switch at its middle; nser <
\* 0.5 is a threshold built into profit_make_sersic.  Otherwise the pixel
\* is integrated by a _sersic_sumpix call at recursion level 0 over the
\* extent of the pixel.
C21_PointSampleIffRoughLowNserOrSwitch ==
    PathChosen =>
        LET sp == ser.profiles[ser.last.profile]
        IN  /\ ser.last.kind = "fast" <=>
                  (sp.rough \/ sp.nser10 < 5 \/ SwitchHolds)
            /\ ser.last.kind = "call" =>
                  /\ 2 * ser.last.x = (2 * ser.i + 1) * ser.model.xbin
                  /\ 2 * ser.last.y = (2 * ser.j + 1) * ser.model.ybin
                  /\ Len(ser.stack) = 1
                  /\ ser.stack[1].level = 0
                  /\ ser.stack[1].x0 = ser.i * ser.model.xbin
                  /\ ser.stack[1].x1 = (ser.i + 1) * ser.model.xbin
                  /\ ser.stack[1].y0 = ser.j * ser.model.ybin
                  /\ ser.stack[1].y1 = (ser.j + 1) * ser.model.ybin

C21_Witness ==
    /\ PathChosen /\ ser.last.kind = "call" /\ focus = "path"
    /\ ~ser.profiles[ser.last.profile].rough
    /\ ser.profiles[ser.last.profile].nser10 = 5
    /\ ser.images[1][0].path = "point"
    /\ ser.stack[1].x1 - ser.stack[1].x0 = ser.model.xbin

-----------------------------------------------------------------------------
\* the height of a sub-cell of a _sersic_sumpix call at the level
SubCellHeight(sp, level) ==
    ser.model.ybin \div Pow(sp.resolution, level + 1)

\* the last step evaluated the accuracy test of a sub-cell
TestEvaluated == op = "sersic" /\ ser.last.kind = "sub" /\ ser.last.tested

\* the radius at the point of the profile's frame that lies 'offset' image
\* units further from the centre than (x, y) along the minor axis
RadiusFurtherOut(sp, x, y, offset) ==
    Radius(IF sp.box = 0 THEN 2 ELSE sp.box + 2,
           Fabs(x), Plus(Fabs(y), Fabs(Div(offset, sp.axrat))))

\* C22: the accuracy test of the integrator compares the intensity at the
\* middle of the sub-cell with the intensity at the point whose minor-axis
\* coordinate is one half of the sub-cell bin further from the profile
\* centre, the major-axis coordinate being the same.
C22_TestPointHalfBinAway ==
    TestEvaluated =>
        LET sp == ser.profiles[ser.last.profile]
        IN  ser.last.test =
               RadiusFurtherOut(sp, ser.last.x_ser, ser.last.y_ser,
                                SubCellHeight(sp, ser.last.level) \div 2)

\* C22, amended: the test point is one whole sub-cell bin (ybin, twice the
\* half-bin) further from the profile centre along the minor axis, that
\* is |y'| + |ybin / axrat| in the profile's frame, the major-axis
\* coordinate x' being the same; the test is evaluated only in a call that
\* may recurse.
C22_TestPointWholeBinAway ==
    /\ TestEvaluated =>
          LET sp == ser.profiles[ser.last.profile]
          IN  /\ ser.last.test =
                     RadiusFurtherOut(sp, ser.last.x_ser, ser.last.y_ser,
                                      SubCellHeight(sp, ser.last.level))
              /\ ser.last.r =
                     Radius(IF sp.box = 0 THEN 2 ELSE sp.box + 2,
                            Fabs(ser.last.x_ser), Fabs(ser.last.y_ser))
              /\ sp.resolution > 1 /\ ser.last.level < sp.max_recursions
    /\ (op = "sersic" /\ ser.last.kind = "sub" /\ ~ser.last.tested) =>
          ser.last.test = ZeroRadius

C22_Witness ==
    /\ TestEvaluated /\ ser.profiles[ser.last.profile].axrat = 2
    /\ ser.last.level = 1 /\ ser.last.y_ser.k = "fin" /\ ser.last.y_ser.v # 0
    /\ ser.last.test.k = "fin" /\ ser.last.test.pw > ser.last.r.pw

-----------------------------------------------------------------------------
\* initialisation has assigned bn, Ie and the rotation coefficients
ConstantsAssigned(sp) ==
    sp._bn.set /\ sp._ie.set /\ sp._cos_ang.set /\ sp._sin_ang.set

\* C23: every profile is initialised exactly once in a render, before the
\* first pixel of any profile is evaluated, and a profile whose pixels are
\* evaluated has bn, Ie and the cosine and sine of its angle assigned by
\* that initialisation: no evaluation reads an unassigned constant.
C23_InitialisedOnceBeforePixels ==
    op = "sersic" =>
        /\ \A k \in 1..Len(ser.profiles) :
              /\ ser.inits[k] = (IF Initialised(k) THEN 1 ELSE 0)
              /\ (\E c \in DOMAIN ser.images[k] : ser.images[k][c] # Unwritten) =>
                    (ser.inits[k] = 1 /\ ConstantsAssigned(ser.profiles[k]))
              /\ ConstantsAssigned(ser.profiles[k]) =>
                    (ser.inits[k] = 1 /\ ser.profiles[k].error = "")
        /\ ser.stage \in {"pixels", "sumpix"} =>
              /\ \A k \in 1..Len(ser.profiles) : ser.inits[k] = 1
              /\ ConstantsAssigned(ser.profiles[ser.cur])
        /\ Evaluated => ConstantsAssigned(ser.profiles[ser.last.profile])

C23_Witness ==
    /\ op = "sersic" /\ Integrating /\ Len(ser.profiles) = 2 /\ ser.cur = 2
    /\ ser.last.kind = "sub"
    /\ ser.inits = <<1, 1>>
    /\ ser.images[1][0] # Unwritten
    /\ ConstantsAssigned(ser.profiles[1]) /\ ConstantsAssigned(ser.profiles[2])

-----------------------------------------------------------------------------
\* profit_make_sersic, or a _sersic_sumpix call nested in it, is running
Rendering == op = "sersic" /\ ser.stage \in {"pixels", "sumpix"}

\* the same initialised profile has been rendered twice
RenderedTwice ==
    /\ op = "sersic" /\ ser.stage = "done" /\ Len(ser.profiles) = 2
    /\ ser.profiles[1] = ser.profiles[2]
    /\ ConstantsAssigned(ser.profiles[1])

\* C24: a step of the pixel evaluation changes no parameter and no
\* normalisation constant of any profile and no field of the model; of the
\* images it changes at most one cell, in the image of the profile being
\* rendered.  So the constants are never recomputed in the pixel loop, and
\* rendering the same initialised profile twice gives the same image.
C24_EvaluationWritesImageOnly ==
    /\ [][Rendering =>
            /\ ser'.profiles = ser.profiles
            /\ ser'.model = ser.model
            /\ ser'.inits = ser.inits
            /\ ser'.steep = ser.steep
            /\ \A k \in 1..Len(ser.profiles) :
                  k # ser.cur => ser'.images[k] = ser.images[k]
            /\ \A c, e \in DOMAIN ser.images[ser.cur] :
                  (ser'.images[ser.cur][c] # ser.images[ser.cur][c]
                     /\ ser'.images[ser.cur][e] # ser.images[ser.cur][e]) => c = e]_vars
    /\ [](RenderedTwice => ser.images[1] = ser.images[2])

C24_Witness ==
    /\ RenderedTwice /\ ser.model.width = 2 /\ ser.model.height = 2
    /\ ser.images[1][0].path = "sumpix" /\ ser.images[1][3].path = "point"
    /\ ser.images[1] = ser.images[2]

-----------------------------------------------------------------------------
\* the order in which the kinds are to be added
AddOrder ==
    <<"sersic", "moffat", "ferrer", "ferrers", "king", "coresersic", "brokenexp",
      "sky", "null", "psf">>

\* the place of a kind in that order
Rank == [name \in {AddOrder[i] : i \in 1..Len(AddOrder)} |-> CHOOSE i \in 1..Len(AddOrder) : AddOrder[i] = name]

\* the records of the mapping under the names the library knows
KnownNames == Range(AddOrder)

RecordsUnderKnownKinds ==
    UNION {{<<k, i>> : i \in 1..Len(args.recs[k])} : k \in KnownNames \cap lib}

\* C25: the profiles are added in the order sersic, moffat, ferrer,
\* ferrers, king, coresersic, brokenexp, sky, null, psf of their kinds,
\* whatever the order of the keys of the mapping, and in record order
\* within a kind; add_profile is called exactly once for every record, so
\* the model holds one profile for every record under a kind the library
\* knows.
C25_FixedKindOrder ==
    (op = "make_model" /\ m.created) =>
        /\ \A a, b \in 1..Len(m.profiles) :
              a < b =>
                 \/ Rank[m.profiles[a].src[1]] < Rank[m.profiles[b].src[1]]
                 \/ /\ m.profiles[a].src[1] = m.profiles[b].src[1]
                    /\ m.profiles[a].src[2] < m.profiles[b].src[2]
        /\ \A n \in 1..Len(m.profiles) :
              /\ m.profiles[n].src[1] \in KnownNames \cap lib
              /\ m.profiles[n].src[2] \in 1..Len(args.recs[m.profiles[n].src[1]])
              /\ m.profiles[n].kind = m.profiles[n].src[1]
        /\ ProfilesRead =>
              /\ {m.profiles[n].src : n \in 1..Len(m.profiles)} = RecordsUnderKnownKinds
              /\ Len(m.profiles) = Cardinality(RecordsUnderKnownKinds)

C25_Witness ==
    /\ Succeeded /\ Len(m.profiles) = 2
    /\ m.profiles[1].src = <<"ferrers", 1>> /\ m.profiles[2].src = <<"psf", 1>>
    /\ Len(args.recs["sersic"]) = 0

-----------------------------------------------------------------------------
\* profit_make_sersic has returned for profile k
Rendered(k) ==
    /\ op = "sersic" /\ ser.profiles[k].error = ""
    /\ ser.stage = "done" \/ (Rendering /\ k < ser.cur)

\* C26: for every width and height profit_make_sersic writes every index
\* of [0, width*height) exactly once and no index outside it; the pixel of
\* column i and row j is stored at index i + j*width and is sampled at
\* ((i + 1/2)*xbin, (j + 1/2)*ybin).
C26_EveryIndexWrittenOnce ==
    /\ [][Rendering =>
            /\ ser.i < ser.model.width /\ ser.j < ser.model.height
            /\ \A c \in DOMAIN ser.writes[ser.cur] :
                  ser'.writes[ser.cur][c] # ser.writes[ser.cur][c] =>
                     /\ c = ser.i + ser.j * ser.model.width
                     /\ ser'.writes[ser.cur][c] = 1
                     /\ ser'.images[ser.cur][c] # Unwritten
            /\ ser.stage = "pixels" =>
                  /\ 2 * ser'.last.x = (2 * ser.i + 1) * ser.model.xbin
                  /\ 2 * ser'.last.y = (2 * ser.j + 1) * ser.model.ybin]_vars
    /\ [](op = "sersic" =>
            /\ ser.stray = 0
            /\ \A k \in 1..Len(ser.profiles) :
                  /\ DOMAIN ser.writes[k] = 0..(ser.model.width * ser.model.height - 1)
                  /\ \A c \in DOMAIN ser.writes[k] :
                        /\ ser.writes[k][c] <= 1
                        /\ Rendered(k) => ser.writes[k][c] = 1)

C26_Witness ==
    /\ op = "sersic" /\ ser.stage = "done" /\ Len(ser.profiles) = 2 /\ Rendered(2)
    /\ ser.model.width = MaxDim /\ ser.model.height = MaxDim
    /\ \A c \in 0..(MaxDim * MaxDim - 1) : ser.writes[2][c] = 1
    /\ ser.images[2][0].path = "sumpix"
    /\ ser.images[2][MaxDim * MaxDim - 1].path = "point"
    /\ ser.stray = 0

-----------------------------------------------------------------------------
(* the divisors of the pixel integrator *)

\* the divisors of a _sersic_sumpix call are zero: sp->resolution in
\* (x1-x0) / sp->resolution and (y1-y0) / sp->resolution, and
\* sp->resolution * sp->resolution under the total
DividesByZero(sp) == sp.resolution = 0

\* a pixel that an integration has written holds the quotient of 0 by 0
ZeroByZeroWritten ==
    \E k \in 1..Len(ser.profiles) : \E c \in DOMAIN ser.images[k] :
        ser.images[k][c].path = "sumpix" /\ ser.images[k][c].nan

\* C27: the pixel integrator never divides by zero.  Whenever a call of
\* _sersic_sumpix is active the resolution of the profile, and with it the
\* divisor resolution * resolution, is not zero, and no pixel the
\* integrator has written is the quotient of zero by zero.
C27_IntegratorNeverDividesByZero ==
    op = "sersic" =>
        /\ (Integrating => ~DividesByZero(ser.profiles[ser.cur]))
        /\ ~ZeroByZeroWritten

-----------------------------------------------------------------------------
(* the interpreter lock *)

\* the calling thread is between Py_BEGIN_ALLOW_THREADS and
\* Py_END_ALLOW_THREADS
Released == focus = "lock" /\ pc \in {"call", "end"}

\* C28 as stated: while the interpreter lock is released the calling
\* thread calls no function of the Python API, writes no Python object and
\* sets no Python error; a failure of the library call is kept as a
\* message and becomes the Python error only after the lock has been taken
\* again.
C28_NoPythonObjectWhileReleased ==
    focus = "lock" =>
        /\ ~gil.last.held => (gil.last.api = {} /\ gil.last.written = {})
        /\ Released => (gil.holder # "caller" /\ pyerr = NoError)
        /\ pc = "end" => gil.error = ev.error \/ op = "make_convolver"
        /\ pyerr # NoError =>
               (pc = "done" /\ gil.holder = "caller" /\ pyerr = gil.error
                /\ gil.last.step = "raise" /\ gil.last.held)

\* C28 as the code has it: while the interpreter lock is released the
\* calling thread calls no function of the Python API and sets no Python
\* error, and the one Python object it writes is the PyConvolver object
\* that make_convolver has created and not yet returned, whose convolver
\* field receives the result of create_convolver; a failure of the library
\* call is kept as a message and becomes the Python error only after the
\* lock has been taken again.
C28_NoPythonCallWhileReleased ==
    focus = "lock" =>
        /\ ~gil.last.held =>
               /\ gil.last.api = {}
               /\ gil.last.written \subseteq {"convolver_ptr"}
               /\ gil.last.written # {} =>
                      (op = "make_convolver" /\ gil.stored /\ ret = NotReturned)
        /\ Released => (gil.holder # "caller" /\ pyerr = NoError)
        /\ pc = "end" => gil.error = ev.error \/ op = "make_convolver"
        /\ pyerr # NoError =>
               (pc = "done" /\ gil.holder = "caller" /\ pyerr = gil.error
                /\ gil.last.step = "raise" /\ gil.last.held)

\* create_convolver has returned while another thread held the lock, and
\* its result is in the object
C28_Witness ==
    /\ focus = "lock" /\ op = "make_convolver" /\ pc = "end"
    /\ gil.holder = "other" /\ gil.stored /\ ~gil.last.held
    /\ gil.last.written = {"convolver_ptr"}

-----------------------------------------------------------------------------
(* the dimensions of the model *)

MaskMessage == "calcmask must have same dimensions of image"

\* the item is a Python integer
IsInteger(o) == o.tag \in {"num", "long", "huge"}

\* the item is an integer in [0, 2^32)
InUnsignedRange(o) == o.tag \in {"num", "long"} /\ HighWord(o) = 0

\* the supplied mask is not of the supplied width and height, taken as
\* the integers they are
MaskDiffersUnreduced ==
    /\ args.calcmask.tag = "seq"
    /\ \/ HighWord(args.width) # 0 \/ args.width.n # args.calcmask.w
       \/ HighWord(args.height) # 0 \/ args.height.n # args.calcmask.h

\* C29 as stated: every integer width and height, in [0, 2^32) or not, is
\* accepted by the binding and set on the model reduced modulo 2^32 (a
\* value in [0, 2^32) is set as it is), and a call with integer dimensions
\* and profiles is refused only for a mask whose dimensions differ from the
\* unreduced width and height.
C29_EveryIntegerSetReduced ==
    (focus = "dims" /\ IsInteger(args.width) /\ IsInteger(args.height)) =>
        /\ m.created => m.dims = <<args.width.n, args.height.n>>
        /\ (pc = "done" /\ args.has_profiles) =>
               (pyerr = MaskMessage /\ MaskDiffersUnreduced)
        /\ (pc \in {"configure", "profiles"} /\ args.calcmask.tag = "seq") =>
               ~MaskDiffersUnreduced

\* C29 as the code has it: an integer width or height that fits a long, in
\* [0, 2^32) or not, is accepted and set on the model reduced modulo 2^32
\* (a value in [0, 2^32) is set as it is); an integer that does not fit a
\* long is refused with the OverflowError of the conversion; and a call
\* with dimensions that fit and with profiles is refused only for a mask
\* whose dimensions differ from the unreduced width and height.
C29_LongSetReduced ==
    (focus = "dims" /\ IsInteger(args.width) /\ IsInteger(args.height)) =>
        LET fits == args.width.tag # "huge" /\ args.height.tag # "huge"
        IN  /\ m.created =>
                   (fits /\ m.dims = <<args.width.n, args.height.n>>)
            /\ (pc = "done" /\ ~fits) => (pyerr = OverflowError /\ ~m.created)
            /\ (pc = "done" /\ fits /\ args.has_profiles) =>
                   (pyerr = MaskMessage /\ MaskDiffersUnreduced)
            /\ (pc \in {"configure", "profiles"} /\ args.calcmask.tag = "seq") =>
                   ~MaskDiffersUnreduced
            /\ pc = "profiles" => m.created

\* a width of 2^32 + 1 has been set as 1, next to a height of 2^32 - 1
C29_Witness ==
    /\ focus = "dims" /\ pc = "profiles" /\ m.created
    /\ args.width = PyLong(1, 1) /\ args.height = PyLong(0, -1)
    /\ ~InUnsignedRange(args.width) /\ InUnsignedRange(args.height)
    /\ m.dims = <<1, -1>>

-----------------------------------------------------------------------------
(* the size of an Image or a Mask *)

\* the product of the width and the height is less than 2^32: of the
\* dimensions tried only Half times Half is not
ProductFitsWord(w, h) == ~(w >= Half /\ h >= Half)

\* C30: _2ddata computes its size as width * height in unsigned 32-bit
\* arithmetic.  A construction succeeds exactly when the data length is the
\* product modulo 2^32, and then the stored size is the data length; this is
\* the product itself when the product is less than 2^32, and for a product
\* of 2^32 it is 0, so that an object with no data is accepted for a width
\* and a height whose product is not 0.
C30_SizeIsProductModuloWord ==
    (op = "_2ddata" /\ obj.attempted) =>
        /\ ~obj.result.threw =>
               /\ obj.result.val.size = Len(obj.data)
               /\ obj.result.val.data = obj.data
               /\ obj.result.val.width = obj.width
               /\ obj.result.val.height = obj.height
        /\ ProductFitsWord(obj.width, obj.height) =>
               (obj.result.threw <=> ~ProductIs(Len(obj.data), obj.width, obj.height))
        /\ (obj.width = Half /\ obj.height = Half) =>
               (obj.result.threw <=> Len(obj.data) # 0)

\* an object of 65536 by 65536 with no data has been constructed
C30_Witness ==
    /\ op = "_2ddata" /\ obj.attempted /\ ~obj.result.threw
    /\ obj.width = Half /\ obj.height = Half
    /\ obj.result.val.size = 0 /\ Len(obj.data) = 0
    /\ ~ProductIs(Len(obj.data), obj.width, obj.height)

====
